---- MODULE Spec2Model ----
(***************************************************************************)
(* Model of the fantasy-api HTTP facade (src/src/app.py, src/src/deps.py), *)
(* its settings (src/src/settings.py) and the Yahoo adapter                *)
(* (src/src/yahoo_client.py): per-IP rate limiting, API-key check,         *)
(* parameter validation, request-id middleware, exception handlers, the    *)
(* routes, and the authorization-code exchange with its credential file.   *)
(***************************************************************************)
EXTENDS Integers, Sequences, FiniteSets, TLC

(***************************************************************************)
(* Bounds of the model.                                                    *)
(***************************************************************************)
\* RATE_LIMIT_PER_MIN of the settings under which the service is explored
\* (settings.py:22 defaults it to 60).
RATE_LIMIT_PER_MIN == 2
\* The clock advances in steps of TickStep seconds up to MaxTime.
TickStep == 30
MaxTime == 60
\* expires_in (seconds) of the token responses that carry one.
ExpiresIn == 45
\* Age (seconds) beyond which the OAuth library holds a token expired.
TokenLifetime == 30

\* The most entries a "transactions" value of the parser's inputs holds.
MaxRecords == 2

\* The most entries a FAVORITE_TEAMS string of the settings parser's inputs holds.
MaxFavorites == 2

\* The most loads of the credential file the concurrent reader makes.
MaxLoads == 2

\* RateLimitItemPerMinute: the window of one rate-limit item, in seconds.
Minute == 60

(***************************************************************************)
(* Values.                                                                 *)
(***************************************************************************)
\* Python's None: an absent header, query parameter, JSON key or field.
None == "None"
\* Python truthiness of a string-or-None value: None and "" are falsy.
Falsy(x) == x \in {None, ""}

\* JSON scalars that may be a number or a string are tagged, so that a number
\* and the string spelling it stay different values.
NoVal == <<"none", 0>>
Num(n) == <<"num", n>>
Str(n) == <<"str", n>>
IsNumber(v) == v[1] = "num"

\* The client addresses requests come from (request.client.host).
IPs == {"ip1", "ip2"}

\* A string is modelled as the tuple of its characters where its inner
\* structure matters (team keys).
Digits == {"4", "7"}
IsDigit(c) == c \in Digits

(***************************************************************************)
(* State.                                                                  *)
(***************************************************************************)
VARIABLES
    settings,   \* the Settings object the app was created with
    logLevel,   \* effective level of the stdlib logger of yahoo_client
    yfa,        \* whether yahoo_fantasy_api could be imported
    now,        \* time.time(), in seconds
    storage,    \* RateLimiter.storage: per key, the counter and its expiry
    file,       \* the credential file at settings.YAHOO_OAUTH_FILE
    req,        \* the request handled last
    resp,       \* the response sent for it
    calls,      \* adapter operations and upstream calls made for it
    upstream,   \* how the upstream behaved towards the last adapter operation
    result,     \* what the last adapter operation returned or raised
    run         \* calls running at the same time on the credential file

vars == <<settings, logLevel, yfa, now, storage, file, req, resp, calls,
          upstream, result, run>>

(***************************************************************************)
(* deps.py: request ids, the API-key check and the rate limiter.           *)
(***************************************************************************)
\* request_id_generator: the inbound X-Request-Id, or a fresh uuid4 when the
\* header is absent or empty.
request_id_generator(r) == IF Falsy(r.rid) THEN "uuid4" ELSE r.rid

\* A checker that only asks for the header to be present.
APIKeyCheckerPresent(x_api_key) ==
    IF Falsy(settings.API_KEY) THEN TRUE ELSE ~Falsy(x_api_key)

\* APIKeyChecker.__call__: TRUE when the request passes, FALSE when it raises
\* HTTPException(401).
APIKeyChecker(x_api_key) ==
    IF Falsy(settings.API_KEY)
    THEN TRUE
    ELSE ~(Falsy(x_api_key) \/ x_api_key # settings.API_KEY)

\* MemoryStorage.get: the counter of a key, 0 once its expiry has passed.
StorageGet(st, key, t) == IF st[key].expiry <= t THEN 0 ELSE st[key].count

\* A test that is off by one: it still passes when the counter is at the limit.
StrategyTestInclusive(st, key, t) == StorageGet(st, key, t) <= RATE_LIMIT_PER_MIN

\* FixedWindowElasticExpiryRateLimiter.test for one hit.
StrategyTest(st, key, t) == StorageGet(st, key, t) < RATE_LIMIT_PER_MIN

\* FixedWindowElasticExpiryRateLimiter.hit: MemoryStorage.incr with elastic
\* expiry, every hit moves the expiry of the key to one window from now.
StrategyHit(st, key, t) ==
    [st EXCEPT ![key] = [count |-> StorageGet(st, key, t) + 1,
                         expiry |-> t + Minute]]

\* RateLimiter.__call__: test, raise 429 when the test fails, else hit. The
\* coroutine has no await between the two, so it runs as one step.
RateLimiter(st, ip, t) ==
    IF StrategyTest(st, ip, t)
    THEN [allowed |-> TRUE, storage |-> StrategyHit(st, ip, t)]
    ELSE [allowed |-> FALSE, storage |-> st]

\* MemoryStorage's expiry timer: entries whose expiry has passed are dropped.
StorageExpire(st, t) ==
    [k \in DOMAIN st |->
        IF st[k].expiry <= t THEN [count |-> 0, expiry |-> 0] ELSE st[k]]

(***************************************************************************)
(* app.py: query validation of team_key.                                   *)
(***************************************************************************)
RECURSIVE SkipDigits(_, _)
\* \d+ scanned from position i: the position after the run of digits.
SkipDigits(s, i) ==
    IF i <= Len(s) /\ IsDigit(s[i]) THEN SkipDigits(s, i + 1) ELSE i

\* A literal of the pattern at position i of s.
Literal(s, i, lit) ==
    /\ i + Len(lit) - 1 <= Len(s)
    /\ \A k \in 1..Len(lit) : s[i + k - 1] = lit[k]

\* The pattern without its closing anchor: a team key followed by anything.
MatchTeamKeyPrefix(s) ==
    LET a == SkipDigits(s, 1)
        b == SkipDigits(s, a + 3)
        c == SkipDigits(s, b + 3)
    IN  /\ a > 1
        /\ Literal(s, a, <<".", "l", ".">>)
        /\ b > a + 3
        /\ Literal(s, b, <<".", "t", ".">>)
        /\ c > b + 3

\* Query(..., pattern=r"^\d+\.l\.\d+\.t\.\d+$") on a present team_key.
MatchTeamKey(s) ==
    LET a == SkipDigits(s, 1)
        b == SkipDigits(s, a + 3)
        c == SkipDigits(s, b + 3)
    IN  /\ a > 1
        /\ Literal(s, a, <<".", "l", ".">>)
        /\ b > a + 3
        /\ Literal(s, b, <<".", "t", ".">>)
        /\ c > b + 3
        /\ c = Len(s) + 1

\* team_key: str = Query(..., pattern=...): required, and matching. The
\* parameter is <<>> when absent and <<key>> when present.
TeamKeyValid(tk) == tk # <<>> /\ MatchTeamKey(tk[1])

(***************************************************************************)
(* app.py: exception handlers and the request-id middleware.               *)
(***************************************************************************)
\* An HTTPException whose detail is a dict with a "code": the handler sends
\* the detail as the body.
http_exception_handler(status, code, keys) ==
    [kind |-> "error", status |-> status, code |-> code,
     message |-> "text", keys |-> keys, body |-> <<>>]

\* RequestValidationError -> 422 Error(code="validation_error", ...).
validation_exception_handler ==
    [kind |-> "error", status |-> 422, code |-> "validation_error",
     message |-> "text", keys |-> {"code", "message", "details"}, body |-> <<>>]

\* The HTTPExceptions of deps.py, through http_exception_handler.
RateLimited == http_exception_handler(429, "rate_limited", {"code", "message"})
Unauthorized == http_exception_handler(401, "unauthorized", {"code", "message"})

\* Any other exception leaving a route: no handler is registered for it.
Unhandled ==
    [kind |-> "unhandled", status |-> 500, code |-> None,
     message |-> None, keys |-> {}, body |-> <<>>]

\* A route that returns normally.
Success(body) ==
    [kind |-> "ok", status |-> 200, code |-> None,
     message |-> None, keys |-> {}, body |-> <<body>>]

\* request_id_middleware: the header is set on the response call_next
\* returns; an exception raised through call_next skips that line and
\* leaves the app as the server's plain-text 500.
request_id_middleware(r, inner) ==
    IF inner.kind = "unhandled"
    THEN [status |-> 500, shape |-> "plain", code |-> None, message |-> None,
          keys |-> {}, rid |-> None, body |-> <<>>]
    ELSE [status |-> inner.status,
          shape |-> IF inner.kind = "error" THEN "error" ELSE "json",
          code |-> inner.code, message |-> inner.message, keys |-> inner.keys,
          rid |-> request_id_generator(r), body |-> inner.body]

(***************************************************************************)
(* yahoo_client.py: the credential file and the OAuth operations.          *)
(***************************************************************************)
\* The keys of the credential record. A key the record does not hold maps to
\* None (NoVal for the numeric ones), which is what dict.get returns for it.
EmptyData ==
    [consumer_key |-> None, consumer_secret |-> None, redirect_uri |-> None,
     access_token |-> None, refresh_token |-> None, token_type |-> None,
     token_time |-> NoVal, expires_in |-> NoVal, scope |-> None,
     guid |-> None, id_token |-> None, state |-> None]

\* The file: missing, present but not JSON, or a JSON object.
FileAbsent == [exists |-> FALSE, valid |-> FALSE, data |-> EmptyData]
FileInvalid == [exists |-> TRUE, valid |-> FALSE, data |-> EmptyData]
FileOf(data) == [exists |-> TRUE, valid |-> TRUE, data |-> data]

\* _load_oauth_data: {} when the file is missing, YahooOAuthError(500) when it
\* is not valid JSON, else its content.
_load_oauth_data(f) ==
    IF ~f.exists THEN [ok |-> TRUE, status |-> 0, data |-> EmptyData]
    ELSE IF ~f.valid THEN [ok |-> FALSE, status |-> 500, data |-> EmptyData]
    ELSE [ok |-> TRUE, status |-> 0, data |-> f.data]

\* The keys of the record in the order json.dump(..., sort_keys=True) writes
\* them, and those whose values are numbers (tagged in the model).
SortedKeys ==
    <<"access_token", "consumer_key", "consumer_secret", "expires_in", "guid",
      "id_token", "redirect_uri", "refresh_token", "scope", "state",
      "token_time", "token_type">>
NumericKeys == {"expires_in", "token_time"}

\* A JSON value as written in the file: null, a number, a string, or a
\* string that spells a number.
JsonText(k, s, n) == [k |-> k, s |-> s, n |-> n]

\* A json.dump that writes every number as a string.
JsonEncodeAsText(key, v) ==
    IF key \in NumericKeys
    THEN IF v = NoVal THEN JsonText("null", "", 0) ELSE JsonText("digits", "", v[2])
    ELSE IF v = None THEN JsonText("null", "", 0) ELSE JsonText("string", v, 0)

\* json.dump of one value of the record.
JsonEncode(key, v) ==
    IF key \in NumericKeys
    THEN CASE v[1] = "none" -> JsonText("null", "", 0)
           [] v[1] = "num" -> JsonText("number", "", v[2])
           [] v[1] = "str" -> JsonText("digits", "", v[2])
    ELSE IF v = None THEN JsonText("null", "", 0) ELSE JsonText("string", v, 0)

\* json.load of one value of the file.
JsonDecode(key, text) ==
    CASE text.k = "null" -> IF key \in NumericKeys THEN NoVal ELSE None
      [] text.k = "number" -> Num(text.n)
      [] text.k = "digits" -> Str(text.n)
      [] text.k = "string" -> text.s

\* json.dump(data, handle, indent=2, sort_keys=True): the members in key order.
JsonDump(data) ==
    [i \in 1..Len(SortedKeys) |->
        [key |-> SortedKeys[i], val |-> JsonEncode(SortedKeys[i], data[SortedKeys[i]])]]

\* The place of each key among the members of the dump.
KeyIndex == [key \in DOMAIN EmptyData |-> CHOOSE i \in 1..Len(SortedKeys) : SortedKeys[i] = key]

\* json.load(handle): the record of the members.
JsonLoad(text) ==
    [key \in DOMAIN EmptyData |-> JsonDecode(text[KeyIndex[key]].key, text[KeyIndex[key]].val)]

\* _write_oauth_data: the record is dumped to a temporary file which then
\* replaces the credential file. The file holds the dumped text, and is
\* modelled by the record that text loads to.
_write_oauth_data(f, data) == FileOf(JsonLoad(JsonDump(data)))

\* Python's "a or b".
PyOr(a, b) == IF Falsy(a) THEN b ELSE a

\* _resolve_credentials: settings first for the consumer key and secret, the
\* file first for the redirect URI; YahooOAuthError(500) without key or secret.
_resolve_credentials(data) ==
    LET consumer_key == PyOr(settings.YAHOO_CONSUMER_KEY, data.consumer_key)
        consumer_secret == PyOr(settings.YAHOO_CONSUMER_SECRET, data.consumer_secret)
    IN  [ok |-> ~Falsy(consumer_key) /\ ~Falsy(consumer_secret),
         consumer_key |-> consumer_key,
         consumer_secret |-> consumer_secret,
         redirect_uri |-> PyOr(PyOr(data.redirect_uri, settings.YAHOO_REDIRECT_URI), "oob")]

\* The numeric value of a logging level name (logging.INFO .. CRITICAL).
LevelNo(l) ==
    CASE l = "INFO" -> 20
      [] l = "WARNING" -> 30
      [] l = "ERROR" -> 40
      [] l = "CRITICAL" -> 50

\* log = logging.getLogger(__name__) is a stdlib logger: log.<level>(msg,
\* key=value) passes the keywords to Logger._log, which raises TypeError,
\* whenever the logger is enabled for the level.
LogRaises(level) == LevelNo(level) >= LevelNo(logLevel)

\* What the operations hand back: a value, a YahooOAuthError with its
\* status_code, or another exception.
Returned(ret, f, trace) ==
    [kind |-> "ok", status |-> 200, ret |-> <<ret>>, file |-> f, calls |-> trace]
YahooOAuthError(status, f, trace) ==
    [kind |-> "oauth_error", status |-> status, ret |-> <<>>, file |-> f, calls |-> trace]
Raised(f, trace) ==
    [kind |-> "exception", status |-> 500, ret |-> <<>>, file |-> f, calls |-> trace]

\* A logging call on an error path, followed by raise YahooOAuthError(status).
LogThenRaise(level, status, f, trace) ==
    IF LogRaises(level) THEN Raised(f, trace) ELSE YahooOAuthError(status, f, trace)

\* code.strip() is empty: the codes of the model are "", " " and non-blank ones.
IsBlank(code) == code \in {"", " "}

\* A build_authorization_url whose errors carry YahooOAuthError's default
\* status_code, 400.
BuildUrlDefaultStatus(f, state, redirect_uri) ==
    LET loaded == _load_oauth_data(f)
        creds == _resolve_credentials(loaded.data)
        redirect == PyOr(redirect_uri, creds.redirect_uri)
        trace == <<"build_authorization_url">>
    IN  IF ~loaded.ok THEN YahooOAuthError(400, f, trace)
        ELSE IF ~creds.ok THEN YahooOAuthError(400, f, trace)
        ELSE Returned([endpoint |-> "https://api.login.yahoo.com/oauth2/request_auth",
                       client_id |-> creds.consumer_key,
                       redirect_uri |-> redirect,
                       response_type |-> "code",
                       state |-> IF Falsy(state) THEN None ELSE state,
                       state_returned |-> state], f, trace)

\* build_authorization_url.
build_authorization_url(f, state, redirect_uri) ==
    LET loaded == _load_oauth_data(f)
        creds == _resolve_credentials(loaded.data)
        redirect == PyOr(redirect_uri, creds.redirect_uri)
        trace == <<"build_authorization_url">>
    IN  IF ~loaded.ok THEN YahooOAuthError(500, f, trace)
        ELSE IF ~creds.ok THEN YahooOAuthError(500, f, trace)
        ELSE Returned([endpoint |-> "https://api.login.yahoo.com/oauth2/request_auth",
                       client_id |-> creds.consumer_key,
                       redirect_uri |-> redirect,
                       response_type |-> "code",
                       state |-> IF Falsy(state) THEN None ELSE state,
                       state_returned |-> state], f, trace)

\* A record built from the token response alone, nothing of the loaded record
\* kept.
StoredRecordFresh(data, creds, redirect, payload, state, t) ==
    [EmptyData EXCEPT !.consumer_key = creds.consumer_key,
                      !.consumer_secret = creds.consumer_secret,
                      !.redirect_uri = redirect,
                      !.access_token = payload.access_token,
                      !.refresh_token = payload.refresh_token,
                      !.token_type = payload.token_type,
                      !.token_time = Num(t),
                      !.expires_in = payload.expires_in,
                      !.scope = payload.scope,
                      !.guid = payload.xoauth_yahoo_guid,
                      !.id_token = payload.id_token,
                      !.state = state]

\* The record exchange_authorization_code stores: the loaded record updated
\* with the credentials and tokens, then with the optional keys that are
\* not None.
StoredRecord(data, creds, redirect, payload, state, t) ==
    LET base == [data EXCEPT !.consumer_key = creds.consumer_key,
                             !.consumer_secret = creds.consumer_secret,
                             !.redirect_uri = redirect,
                             !.access_token = payload.access_token,
                             !.refresh_token = payload.refresh_token,
                             !.token_type = payload.token_type,
                             !.token_time = Num(t)]
    IN  [base EXCEPT
            !.expires_in = IF payload.expires_in # NoVal THEN payload.expires_in ELSE @,
            !.scope = IF payload.scope # None THEN payload.scope ELSE @,
            !.guid = IF payload.xoauth_yahoo_guid # None THEN payload.xoauth_yahoo_guid ELSE @,
            !.id_token = IF payload.id_token # None THEN payload.id_token ELSE @,
            !.state = IF state # None THEN state ELSE @]

\* An expires_at that forgets the issue time.
ExpiresAtLifetime(payload, t) ==
    IF IsNumber(payload.expires_in) THEN Num(payload.expires_in[2]) ELSE NoVal

\* expires_at of the result: token_time + expires_in when expires_in is an int
\* or a float, else None.
ExpiresAt(payload, t) ==
    IF IsNumber(payload.expires_in) THEN Num(t + payload.expires_in[2]) ELSE NoVal

\* An exchange that persists the response before it looks for the token
\* fields.
ExchangeWriteFirst(f, code, redirect_uri, state, up, t) ==
    LET loaded == _load_oauth_data(f)
        creds == _resolve_credentials(loaded.data)
        redirect == PyOr(redirect_uri, creds.redirect_uri)
        payload == up.payload
        stored == StoredRecord(loaded.data, creds, redirect, payload, state, t)
        entered == <<"exchange_authorization_code">>
        posted == <<"exchange_authorization_code", "POST get_token">>
    IN  IF IsBlank(code) THEN YahooOAuthError(400, f, entered)
        ELSE IF ~loaded.ok THEN YahooOAuthError(500, f, entered)
        ELSE IF ~creds.ok THEN YahooOAuthError(500, f, entered)
        ELSE IF up.kind = "network_error" THEN LogThenRaise("ERROR", 502, f, posted)
        ELSE IF up.status >= 400 THEN LogThenRaise("WARNING", up.status, f, posted)
        ELSE IF ~up.json THEN LogThenRaise("ERROR", 502, f, posted)
        ELSE IF Falsy(payload.access_token) \/ Falsy(payload.refresh_token)
                \/ Falsy(payload.token_type)
            THEN YahooOAuthError(502, _write_oauth_data(f, stored), posted)
        ELSE Returned([status |-> "stored",
                       token_type |-> stored.token_type,
                       guid |-> stored.guid,
                       scope |-> stored.scope,
                       expires_at |-> ExpiresAt(payload, t)],
                      _write_oauth_data(f, stored), posted)

\* exchange_authorization_code, for the answer up of the token endpoint.
exchange_authorization_code(f, code, redirect_uri, state, up, t) ==
    LET loaded == _load_oauth_data(f)
        creds == _resolve_credentials(loaded.data)
        redirect == PyOr(redirect_uri, creds.redirect_uri)
        payload == up.payload
        stored == StoredRecord(loaded.data, creds, redirect, payload, state, t)
        entered == <<"exchange_authorization_code">>
        posted == <<"exchange_authorization_code", "POST get_token">>
    IN  IF IsBlank(code) THEN YahooOAuthError(400, f, entered)
        ELSE IF ~loaded.ok THEN YahooOAuthError(500, f, entered)
        ELSE IF ~creds.ok THEN YahooOAuthError(500, f, entered)
        ELSE IF up.kind = "network_error" THEN LogThenRaise("ERROR", 502, f, posted)
        ELSE IF up.status >= 400 THEN LogThenRaise("WARNING", up.status, f, posted)
        ELSE IF ~up.json THEN LogThenRaise("ERROR", 502, f, posted)
        ELSE IF Falsy(payload.access_token) \/ Falsy(payload.refresh_token)
                \/ Falsy(payload.token_type)
            THEN YahooOAuthError(502, f, posted)
        ELSE Returned([status |-> "stored",
                       token_type |-> stored.token_type,
                       guid |-> stored.guid,
                       scope |-> stored.scope,
                       expires_at |-> ExpiresAt(payload, t)],
                      _write_oauth_data(f, stored), posted)

(***************************************************************************)
(* settings.py: Settings.favorite_teams. Strings are tuples of characters. *)
(***************************************************************************)
RECURSIVE IndexFrom(_, _, _)
\* The first position >= i of character c in s, 0 when there is none.
IndexFrom(s, c, i) ==
    IF i > Len(s) THEN 0
    ELSE IF s[i] = c THEN i
    ELSE IndexFrom(s, c, i + 1)

\* c in s
Contains(s, c) == IndexFrom(s, c, 1) # 0

RECURSIVE Split(_, _)
\* s.split(c)
Split(s, c) ==
    LET i == IndexFrom(s, c, 1)
    IN  IF i = 0 THEN <<s>>
        ELSE <<SubSeq(s, 1, i - 1)>> \o Split(SubSeq(s, i + 1, Len(s)), c)

\* s.split(c, 1)
SplitOnce(s, c) ==
    LET i == IndexFrom(s, c, 1)
    IN  IF i = 0 THEN <<s>>
        ELSE <<SubSeq(s, 1, i - 1), SubSeq(s, i + 1, Len(s))>>

RECURSIVE LStrip(_)
LStrip(s) == IF s # <<>> /\ Head(s) = " " THEN LStrip(Tail(s)) ELSE s

RECURSIVE RStrip(_)
RStrip(s) ==
    IF s # <<>> /\ s[Len(s)] = " " THEN RStrip(SubSeq(s, 1, Len(s) - 1)) ELSE s

\* s.strip()
Strip(s) == RStrip(LStrip(s))

RECURSIVE StripAllNonEmpty(_)
\* [x for x in [p.strip() for p in parts] if x]
StripAllNonEmpty(parts) ==
    IF parts = <<>> THEN <<>>
    ELSE LET x == Strip(Head(parts))
         IN  (IF x = <<>> THEN <<>> ELSE <<x>>) \o StripAllNonEmpty(Tail(parts))

\* re.match(r"^(\d+\.l\.\d+)\.t\.\d+$", team_key): <<group 1>>, or <<>> when
\* there is no match.
LeagueKeyMatch(team_key) ==
    LET a == SkipDigits(team_key, 1)
        b == SkipDigits(team_key, a + 3)
        c == SkipDigits(team_key, b + 3)
    IN  IF /\ a > 1
           /\ Literal(team_key, a, <<".", "l", ".">>)
           /\ b > a + 3
           /\ Literal(team_key, b, <<".", "t", ".">>)
           /\ c > b + 3
           /\ c = Len(team_key) + 1
        THEN <<SubSeq(team_key, 1, b - 1)>>
        ELSE <<>>

\* The entries of the configuration: split on ';' if present, else on ',',
\* else the whole string.
FavoriteItems(raw) ==
    LET items == IF Contains(raw, ";") THEN StripAllNonEmpty(Split(raw, ";"))
                 ELSE IF Contains(raw, ",") THEN StripAllNonEmpty(Split(raw, ","))
                 ELSE <<>>
    IN  IF items = <<>> THEN <<raw>> ELSE items

\* One entry: the league and team key, split on '|' or else ':', the league
\* key derived from the team key when it is empty.
FavoritePair(item) ==
    LET parts == IF Contains(item, "|") THEN SplitOnce(item, "|")
                 ELSE IF Contains(item, ":") THEN SplitOnce(item, ":")
                 ELSE <<<<>>, item>>
        league_key == Strip(parts[1])
        team_key == Strip(parts[2])
        m == LeagueKeyMatch(team_key)
    IN  [league_key |-> IF league_key = <<>> /\ team_key # <<>> /\ m # <<>>
                        THEN m[1] ELSE league_key,
         team_key |-> team_key]

RECURSIVE FavoritePairs(_, _)
\* The loop over enumerate(items, start=1), from index idx on.
FavoritePairs(items, idx) ==
    IF idx > Len(items) THEN <<>>
    ELSE LET pair == FavoritePair(items[idx])
         IN  (IF pair.team_key # <<>>
              THEN <<[league_key |-> pair.league_key,
                      team_key |-> pair.team_key,
                      alias |-> <<"fav", idx>>]>>
              ELSE <<>>) \o FavoritePairs(items, idx + 1)

\* Settings.favorite_teams for FAVORITE_TEAMS = config.
favorite_teams(config) ==
    LET raw == Strip(config)
    IN  IF raw = <<>> THEN <<>> ELSE FavoritePairs(FavoriteItems(raw), 1)

(***************************************************************************)
(* yahoo_client.py: sessions and the data operations of the adapter.       *)
(***************************************************************************)
\* OAuth2.token_is_valid on the record loaded from the file.
TokenIsValid(data, t) ==
    IsNumber(data.token_time) /\ t - data.token_time[2] <= TokenLifetime

\* OAuth2.refresh_access_token, the n-th of a request: it raises when the
\* token endpoint refuses, and otherwise sets the access token to what the
\* endpoint answered (possibly nothing) and stamps it with the current time.
RefreshedToken(up, n) == up.tokens[IF n <= Len(up.tokens) THEN n ELSE Len(up.tokens)]

\* An _get_oauth that hands back the stored token without looking at its age.
GetOAuthNoRefresh(f, t, up) ==
    LET d == f.data IN
    IF ~f.exists \/ ~f.valid \/ Falsy(d.consumer_key) \/ Falsy(d.consumer_secret)
       \/ Falsy(d.access_token) \/ Falsy(d.refresh_token) \/ Falsy(d.token_type)
       \/ ~IsNumber(d.token_time)
    THEN [ok |-> FALSE, token |-> None, refreshes |-> 0, file |-> f,
          calls |-> <<"_get_oauth">>]
    ELSE [ok |-> TRUE, token |-> d.access_token, refreshes |-> 0, file |-> f,
          calls |-> <<"_get_oauth">>]

\* An _get_oauth that lets the library store what it refreshed
\* (store_file=True): the refreshed token and its time replace the file's.
GetOAuthStoreFile(f, t, up) ==
    LET d == f.data
        stored == FileOf([d EXCEPT !.access_token = RefreshedToken(up, 1),
                                   !.token_time = Num(t)])
    IN
    IF ~f.exists \/ ~f.valid \/ Falsy(d.consumer_key) \/ Falsy(d.consumer_secret)
       \/ Falsy(d.access_token) \/ Falsy(d.refresh_token) \/ Falsy(d.token_type)
       \/ ~IsNumber(d.token_time)
    THEN [ok |-> FALSE, token |-> None, refreshes |-> 0, file |-> f,
          calls |-> <<"_get_oauth">>]
    ELSE IF TokenIsValid(d, t)
    THEN [ok |-> TRUE, token |-> d.access_token, refreshes |-> 0, file |-> f,
          calls |-> <<"_get_oauth">>]
    ELSE IF up.refresh
    THEN [ok |-> TRUE, token |-> RefreshedToken(up, 1), refreshes |-> 1,
          file |-> stored, calls |-> <<"_get_oauth", "refresh">>]
    ELSE [ok |-> FALSE, token |-> None, refreshes |-> 1, file |-> f,
          calls |-> <<"_get_oauth", "refresh">>]

\* _get_oauth: OAuth2(from_file=..., store_file=False), then a refresh when
\* the token is not valid. The object cannot be built without a readable
\* file holding the consumer key and the three token fields. A refresh
\* changes the token in memory only: store_file is False.
_get_oauth(f, t, up) ==
    LET d == f.data IN
    IF ~f.exists \/ ~f.valid \/ Falsy(d.consumer_key) \/ Falsy(d.consumer_secret)
       \/ Falsy(d.access_token) \/ Falsy(d.refresh_token) \/ Falsy(d.token_type)
       \/ ~IsNumber(d.token_time)
    THEN [ok |-> FALSE, token |-> None, refreshes |-> 0, file |-> f,
          calls |-> <<"_get_oauth">>]
    ELSE IF TokenIsValid(d, t)
    THEN [ok |-> TRUE, token |-> d.access_token, refreshes |-> 0, file |-> f,
          calls |-> <<"_get_oauth">>]
    ELSE IF up.refresh
    THEN [ok |-> TRUE, token |-> RefreshedToken(up, 1), refreshes |-> 1, file |-> f,
          calls |-> <<"_get_oauth", "refresh">>]
    ELSE [ok |-> FALSE, token |-> None, refreshes |-> 1, file |-> f,
          calls |-> <<"_get_oauth", "refresh">>]

\* A get_session that builds the session from whatever token _get_oauth
\* handed back, empty or not.
GetSessionUnchecked(f, t, up) ==
    LET oauth == _get_oauth(f, t, up)
        entered == <<"get_session">> \o oauth.calls
    IN  IF ~oauth.ok
        THEN [ok |-> FALSE, authorization |-> <<>>, file |-> oauth.file,
              calls |-> entered]
        ELSE [ok |-> TRUE, authorization |-> <<"Bearer", oauth.token>>,
              file |-> oauth.file, calls |-> entered]

\* get_session: _get_oauth; the token it hands back is valid, so the second
\* validity check passes; an empty access token is refreshed once more, and
\* RuntimeError is raised when it is still empty; else the session carries
\* Authorization: Bearer <token>.
get_session(f, t, up) ==
    LET oauth == _get_oauth(f, t, up)
        entered == <<"get_session">> \o oauth.calls
        again == RefreshedToken(up, oauth.refreshes + 1)
    IN  IF ~oauth.ok
        THEN [ok |-> FALSE, authorization |-> <<>>, file |-> oauth.file,
              calls |-> entered]
        ELSE IF ~Falsy(oauth.token)
        THEN [ok |-> TRUE, authorization |-> <<"Bearer", oauth.token>>,
              file |-> oauth.file, calls |-> entered]
        ELSE IF ~up.refresh
        THEN [ok |-> FALSE, authorization |-> <<>>, file |-> oauth.file,
              calls |-> entered \o <<"refresh">>]
        ELSE IF ~Falsy(again)
        THEN [ok |-> TRUE, authorization |-> <<"Bearer", again>>,
              file |-> oauth.file, calls |-> entered \o <<"refresh">>]
        ELSE [ok |-> FALSE, authorization |-> <<>>, file |-> oauth.file,
              calls |-> entered \o <<"refresh", "raise RuntimeError">>]

\* _to_int_or_none on a tagged value: ints and numeric strings convert.
_to_int_or_none(v) == IF v[1] \in {"num", "str"} THEN Num(v[2]) ELSE NoVal

RECURSIVE MapTeams(_)
\* The loop of list_teams over teams_raw.items().
MapTeams(teams) ==
    IF teams = <<>> THEN <<>>
    ELSE <<[team_key |-> Head(teams).team_key,
            team_name |-> PyOr(PyOr(Head(teams).name, Head(teams).team_name), ""),
            waiver_priority |-> _to_int_or_none(Head(teams).waiver_priority)]>>
         \o MapTeams(Tail(teams))

RECURSIVE MapLeagues(_)
\* The loop of list_teams over league_ids.
MapLeagues(leagues) ==
    IF leagues = <<>> THEN <<>>
    ELSE LET lg == Head(leagues)
             name == PyOr(lg.name, lg.metadata_name)
         IN  <<[league_id |-> lg.lid,
                league_key |-> IF lg.league_key = <<>> THEN lg.lid ELSE lg.league_key,
                league_name |-> IF Falsy(name) THEN None ELSE name,
                teams |-> MapTeams(lg.teams)]>>
             \o MapLeagues(Tail(leagues))

\* list_teams, for the upstream behaviour up.
list_teams(f, t, up) ==
    LET oauth == _get_oauth(f, t, up)
        trace == <<"list_teams">> \o oauth.calls
    IN  IF ~oauth.ok THEN Raised(oauth.file, trace)
        ELSE IF ~yfa THEN Raised(oauth.file, trace)
        ELSE IF up.api # "ok" THEN Raised(oauth.file, trace \o <<"league_ids">>)
        ELSE Returned(MapLeagues(up.leagues), oauth.file, trace \o <<"league_ids">>)

RECURSIVE MapPlayers(_)
\* The loop of get_roster over the upstream roster.
MapPlayers(roster) ==
    IF roster = <<>> THEN <<>>
    ELSE LET p == Head(roster)
         IN  <<[name |-> PyOr(PyOr(PyOr(PyOr(p.name, p.full), p.full_name),
                                   p.display_position), ""),
                position |-> IF Falsy(PyOr(p.position, p.selected_position))
                             THEN None ELSE PyOr(p.position, p.selected_position),
                status |-> IF Falsy(p.status) THEN None ELSE p.status]>>
             \o MapPlayers(Tail(roster))

\* get_roster(settings, team_key, week).
get_roster(f, team_key, week, t, up) ==
    LET oauth == _get_oauth(f, t, up)
        trace == <<"get_roster">> \o oauth.calls
    IN  IF ~oauth.ok THEN Raised(oauth.file, trace)
        ELSE IF ~yfa THEN Raised(oauth.file, trace)
        ELSE IF up.api # "ok" THEN Raised(oauth.file, trace \o <<"roster">>)
        ELSE Returned([team_key |-> team_key, week |-> week,
                       players |-> MapPlayers(up.roster)],
                      oauth.file, trace \o <<"roster">>)

\* JSON values of the transactions answer. A value is a record with its kind
\* k: None, a number, a string (a tuple of characters), a list, or a dict
\* (its entries in order, as Python keeps them).
JNone == [k |-> "none"]
JNum(n) == [k |-> "num", n |-> n]
JStr(chars) == [k |-> "str", chars |-> chars]
JList(items) == [k |-> "list", items |-> items]
JDict(entries) == [k |-> "dict", items |-> entries]
Entry(key, val) == [key |-> key, val |-> val]
\* What a lookup finds under a key the dict does not hold.
Absent == [k |-> "absent"]

RECURSIVE Lookup(_, _)
\* The value of the first entry with the key, Absent when there is none.
Lookup(entries, key) ==
    IF entries = <<>> THEN Absent
    ELSE IF Head(entries).key = key THEN Head(entries).val
    ELSE Lookup(Tail(entries), key)

\* d[key] under try/except, or `key in d` followed by d[key], for a value d
\* that need not be a dict.
Sub(d, key) == IF d.k = "dict" THEN Lookup(d.items, key) ELSE Absent
\* d.get(key, default) for a dict d.
Get(d, key, default) ==
    LET v == Lookup(d.items, key) IN IF v = Absent THEN default ELSE v

RECURSIVE Values(_)
\* dict.values()
Values(entries) ==
    IF entries = <<>> THEN <<>> ELSE <<Head(entries).val>> \o Values(Tail(entries))

\* A loop source that iterates a dict itself, which yields its keys.
IterableKeys(v) ==
    IF v.k = "dict" THEN [i \in 1..Len(v.items) |-> JStr(<<v.items[i].key>>)]
    ELSE IF v.k = "list" THEN v.items
    ELSE <<>>

\* The loop source of lines 352-357 and 370-375: the values of a dict, the
\* items of a list, nothing for any other value.
Iterable(v) ==
    IF v.k = "dict" THEN Values(v.items)
    ELSE IF v.k = "list" THEN v.items
    ELSE <<>>

\* Python truthiness of a JSON value.
Truthy(v) ==
    CASE v.k = "none" -> FALSE
      [] v.k = "num" -> v.n # 0
      [] v.k = "str" -> v.chars # <<>>
      [] OTHER -> v.items # <<>>

RECURSIVE DigitsValue(_, _)
\* The number a run of digits spells, after the value acc of the digits
\* before it.
DigitsValue(chars, acc) ==
    IF chars = <<>> THEN acc
    ELSE DigitsValue(Tail(chars), 10 * acc + (IF Head(chars) = "4" THEN 4 ELSE 7))

\* faab = float(trx.get("faab_bid")) if that is not None, under try/except:
\* a number converts, a string converts when it spells a number (a run of
\* digits, in the alphabet of the model), anything else leaves None.
FaabBid(trx) ==
    LET v == Get(trx, "faab_bid", JNone)
    IN  IF v.k = "num" THEN v
        ELSE IF v.k = "str" /\ v.chars # <<>> /\ \A i \in 1..Len(v.chars) : IsDigit(v.chars[i])
        THEN JNum(DigitsValue(v.chars, 0))
        ELSE JNone

\* What the body of the inner loop does with one action a that is a dict
\* holding "player": the claim it appends, or the exception it raises.
\* a["player"][0] needs a non-empty list, .get("name", {}) a dict as its
\* first item, .get("full") a dict as the name, txd.get a dict as the
\* transaction_data.
ClaimOf(a, t_type, faab) ==
    LET player == Sub(a, "player")
        first == IF player.k = "list" /\ player.items # <<>>
                 THEN player.items[1] ELSE Absent
        name == IF first.k = "dict" THEN Get(first, "name", JDict(<<>>)) ELSE Absent
        full == IF name.k = "dict" THEN Get(name, "full", JNone) ELSE Absent
        txd == Get(a, "transaction_data", JDict(<<>>))
    IN  IF full = Absent \/ txd.k # "dict" THEN [raises |-> TRUE, claim |-> <<>>]
        ELSE [raises |-> FALSE,
              claim |-> <<[player |-> IF Truthy(full) THEN full ELSE JStr(<<>>),
                           action_type |-> Get(txd, "type", t_type),
                           source_team_key |-> Get(txd, "source_team_key", JNone),
                           destination_team_key |-> Get(txd, "destination_team_key", JNone),
                           faab_bid |-> faab]>>]

RECURSIVE ParseActions(_, _, _)
\* for a in action_iter (lines 376-391): the claims appended, and whether an
\* exception ended the loop.
ParseActions(actions, t_type, faab) ==
    IF actions = <<>> THEN [raises |-> FALSE, pending |-> <<>>]
    ELSE LET a == Head(actions)
         IN  IF a.k # "dict" \/ Sub(a, "player") = Absent
             THEN ParseActions(Tail(actions), t_type, faab)
             ELSE LET one == ClaimOf(a, t_type, faab)
                      rest == ParseActions(Tail(actions), t_type, faab)
                  IN  IF one.raises THEN [raises |-> TRUE, pending |-> <<>>]
                      ELSE [raises |-> rest.raises,
                            pending |-> IF rest.raises THEN <<>>
                                        ELSE one.claim \o rest.pending]

\* The letters of "waiver", the default type of a transaction.
WaiverType == JStr(<<"w", "a", "i", "v", "e", "r">>)

RECURSIVE ParseTransactions(_)
\* for t in iterable (lines 358-391). trx.get needs the "transaction" value
\* to be a dict.
ParseTransactions(ts) ==
    IF ts = <<>> THEN [raises |-> FALSE, pending |-> <<>>]
    ELSE LET t == Head(ts)
             trx == Sub(t, "transaction")
         IN  IF t.k # "dict" \/ trx = Absent THEN ParseTransactions(Tail(ts))
             ELSE IF trx.k # "dict" THEN [raises |-> TRUE, pending |-> <<>>]
             ELSE LET mine == ParseActions(Iterable(Get(trx, "players", JDict(<<>>))),
                                           Get(trx, "type", WaiverType), FaabBid(trx))
                      rest == ParseTransactions(Tail(ts))
                  IN  IF mine.raises \/ rest.raises
                      THEN [raises |-> TRUE, pending |-> <<>>]
                      ELSE [raises |-> FALSE, pending |-> mine.pending \o rest.pending]

\* data["fantasy_content"]["league"][1]["transactions"] under try/except:
\* Absent when any step of the path fails.
TransactionsOf(data) ==
    LET league == Sub(Sub(data, "fantasy_content"), "league")
    IN  IF league.k = "list" /\ Len(league.items) >= 2
        THEN Sub(league.items[2], "transactions") ELSE Absent

\* _parse_waiver_transactions(data): the pending list, or an exception.
_parse_waiver_transactions(data) ==
    LET transactions == TransactionsOf(data)
    IN  IF transactions = Absent THEN [raises |-> FALSE, pending |-> <<>>]
        ELSE ParseTransactions(Iterable(transactions))

RECURSIVE Priority(_)
\* The loop of get_waivers over teams_raw.items(): waiver_priority as it came.
Priority(teams) ==
    IF teams = <<>> THEN <<>>
    ELSE <<[team_name |-> PyOr(PyOr(Head(teams).name, Head(teams).team_name), ""),
            team_key |-> Head(teams).team_key,
            priority |-> Head(teams).waiver_priority]>>
         \o Priority(Tail(teams))

\* A get_waivers that issues the transactions call a second time when the
\* first one failed.
GetWaiversRetry(f, league_key, team_key, t, up) ==
    LET oauth == _get_oauth(f, t, up)
        session == get_session(oauth.file, t, up)
        t1 == <<"get_waivers">> \o oauth.calls
        t2 == t1 \o <<"settings", "teams">>
        t3 == t2 \o session.calls
        t4 == t3 \o <<"GET transactions">>
             \o (IF up.rest # "ok" THEN <<"GET transactions">> ELSE <<>>)
    IN  IF ~oauth.ok THEN Raised(oauth.file, t1)
        ELSE IF ~yfa THEN Raised(oauth.file, t1)
        ELSE IF up.api # "ok" THEN Raised(oauth.file, t2)
        ELSE IF ~session.ok THEN Raised(session.file, t3)
        ELSE LET parsed == _parse_waiver_transactions(up.data)
             IN  IF parsed.raises THEN Raised(session.file, t4)
                 ELSE Returned([settings |->
                                    [waiver_type |-> up.st.waiver_type,
                                     waiver_rule |-> up.st.waiver_rule,
                                     uses_faab |-> up.st.uses_faab,
                                     waiver_time |-> up.st.waiver_time],
                                priority |-> Priority(up.teams),
                                pending |-> parsed.pending], session.file, t4)

\* get_waivers(settings, league_key, team_key): settings and teams through
\* the library, then the raw transactions call on a session of its own.
get_waivers(f, league_key, team_key, t, up) ==
    LET oauth == _get_oauth(f, t, up)
        session == get_session(oauth.file, t, up)
        t1 == <<"get_waivers">> \o oauth.calls
        t2 == t1 \o <<"settings", "teams">>
        t3 == t2 \o session.calls
        t4 == t3 \o <<"GET transactions">>
    IN  IF ~oauth.ok THEN Raised(oauth.file, t1)
        ELSE IF ~yfa THEN Raised(oauth.file, t1)
        ELSE IF up.api # "ok" THEN Raised(oauth.file, t2)
        ELSE IF ~session.ok THEN Raised(session.file, t3)
        ELSE IF up.rest # "ok" THEN Raised(session.file, t4)
        ELSE LET parsed == _parse_waiver_transactions(up.data)
             IN  IF parsed.raises THEN Raised(session.file, t4)
                 ELSE Returned([settings |->
                                    [waiver_type |-> up.st.waiver_type,
                                     waiver_rule |-> up.st.waiver_rule,
                                     uses_faab |-> up.st.uses_faab,
                                     waiver_time |-> up.st.waiver_time],
                                priority |-> Priority(up.teams),
                                pending |-> parsed.pending], session.file, t4)

\* A key a dict does not hold (as opposed to a key holding None).
Missing == "Missing"

RECURSIVE TeamLookup(_, _, _)
\* team_lookup.get(team_key): the entry written last for the key, among the
\* first n leagues of the listing; <<>> when there is none.
TeamLookup(leagues, n, team_key) ==
    IF n = 0 THEN <<>>
    ELSE LET lg == leagues[n]
             hits == {i \in 1..Len(lg.teams) :
                        lg.teams[i].team_key = team_key /\ team_key # <<>>}
         IN  IF hits # {}
             THEN LET i == CHOOSE j \in hits : \A k \in hits : k <= j
                  IN  <<[league_key |-> lg.league_key,
                         league_name |-> lg.league_name,
                         team_name |-> lg.teams[i].team_name]>>
             ELSE TeamLookup(leagues, n - 1, team_key)

RECURSIVE LeagueLookup(_, _, _)
\* league_lookup.get(league_key), likewise.
LeagueLookup(leagues, n, league_key) ==
    IF n = 0 THEN <<>>
    ELSE IF leagues[n].league_key = league_key
    THEN <<[league_key |-> league_key, league_name |-> leagues[n].league_name]>>
    ELSE LeagueLookup(leagues, n - 1, league_key)

\* A loop body that prefers the join on the league key to the join on the
\* team key.
EnrichOneLeagueFirst(leagues, fav) ==
    LET entry == [league_key |-> fav.league_key, team_key |-> fav.team_key,
                  alias |-> fav.alias, team_name |-> Missing, league_name |-> Missing]
        info == TeamLookup(leagues, Len(leagues), fav.team_key)
        league_info == LeagueLookup(leagues, Len(leagues), fav.league_key)
    IN  IF fav.league_key # <<>> /\ league_info # <<>>
        THEN [entry EXCEPT !.league_name = league_info[1].league_name]
        ELSE IF info # <<>>
        THEN [entry EXCEPT !.team_name = info[1].team_name,
                           !.league_name = info[1].league_name]
        ELSE entry

\* The body of the loop of enrich_favorites for one favorite.
EnrichOne(leagues, fav) ==
    LET entry == [league_key |-> fav.league_key, team_key |-> fav.team_key,
                  alias |-> fav.alias, team_name |-> Missing, league_name |-> Missing]
        info == TeamLookup(leagues, Len(leagues), fav.team_key)
        league_info == LeagueLookup(leagues, Len(leagues), fav.league_key)
    IN  IF info # <<>>
        THEN [entry EXCEPT !.team_name = info[1].team_name,
                           !.league_name = info[1].league_name]
        ELSE IF fav.league_key # <<>> /\ league_info # <<>>
        THEN [entry EXCEPT !.league_name = league_info[1].league_name]
        ELSE entry

\* A favorite as favorite_teams gives it: no names yet.
Unenriched(fav) ==
    [league_key |-> fav.league_key, team_key |-> fav.team_key,
     alias |-> fav.alias, team_name |-> Missing, league_name |-> Missing]

\* An enrich_favorites without the early return for an empty list: the
\* league listing is fetched first.
EnrichFavoritesListFirst(f, favorites, t, up) ==
    LET listing == list_teams(f, t, up)
        trace == <<"enrich_favorites">> \o listing.calls
    IN  IF listing.kind # "ok"
        THEN IF LogRaises("WARNING") THEN Raised(listing.file, trace)
             ELSE Returned([i \in 1..Len(favorites) |-> Unenriched(favorites[i])],
                           listing.file, trace)
        ELSE Returned([i \in 1..Len(favorites) |->
                          EnrichOne(listing.ret[1], favorites[i])],
                      listing.file, trace)

\* enrich_favorites(settings, favorites).
enrich_favorites(f, favorites, t, up) ==
    LET listing == list_teams(f, t, up)
        trace == <<"enrich_favorites">> \o listing.calls
    IN  IF favorites = <<>> THEN Returned(<<>>, f, <<"enrich_favorites">>)
        ELSE IF listing.kind # "ok"
        THEN IF LogRaises("WARNING") THEN Raised(listing.file, trace)
             ELSE Returned([i \in 1..Len(favorites) |-> Unenriched(favorites[i])],
                           listing.file, trace)
        ELSE Returned([i \in 1..Len(favorites) |->
                          EnrichOne(listing.ret[1], favorites[i])],
                      listing.file, trace)

(***************************************************************************)
(* app.py: the routes.                                                     *)
(***************************************************************************)
\* The response of a data route for what its body did: the returned value
\* serialised, or the exception, which no handler catches.
DataResponse(outcome) ==
    IF outcome.kind = "ok" THEN Success(outcome.ret[1]) ELSE Unhandled

\* The response of the two auth routes: a YahooOAuthError becomes an
\* HTTPException with its status_code and Error(code="oauth_error").model_dump().
AuthResponse(outcome) ==
    IF outcome.kind = "ok" THEN Success(outcome.ret[1])
    ELSE IF outcome.kind = "oauth_error"
    THEN http_exception_handler(outcome.status, "oauth_error",
                                {"code", "message", "details"})
    ELSE Unhandled

\* No adapter operation ran.
NoResult == [kind |-> "none", status |-> 0, ret |-> <<>>]
NoUpstream == [kind |-> "none"]

\* What an adapter operation returned or raised, without its effects.
ResultOf(outcome) ==
    [kind |-> outcome.kind, status |-> outcome.status, ret |-> outcome.ret]

\* The request is answered: the middleware finishes the response.
Respond(r, inner, f, trace, st, up, res) ==
    /\ req' = r
    /\ resp' = request_id_middleware(r, inner)
    /\ file' = f
    /\ calls' = trace
    /\ storage' = st
    /\ upstream' = up
    /\ result' = res
    /\ UNCHANGED <<settings, logLevel, yfa, now, run>>

\* A route whose API-key check runs before its rate limiter: a request
\* without a valid key is turned away before it is counted.
ProtectedKeyFirst(r, valid, inner, outcome, up) ==
    LET lim == RateLimiter(storage, r.ip, now)
    IN  IF ~APIKeyChecker(r.key)
        THEN Respond(r, Unauthorized, file, <<>>, storage, NoUpstream, NoResult)
        ELSE IF ~lim.allowed
        THEN Respond(r, RateLimited, file, <<>>, lim.storage, NoUpstream, NoResult)
        ELSE IF ~valid
        THEN Respond(r, validation_exception_handler, file, <<>>, lim.storage,
                     NoUpstream, NoResult)
        ELSE Respond(r, inner, outcome.file, outcome.calls, lim.storage,
                     up, ResultOf(outcome))

\* A route whose body runs before its dependencies and its validation have
\* had their say: the adapter is called whatever the answer.
ProtectedBodyFirst(r, valid, inner, outcome, up) ==
    LET lim == RateLimiter(storage, r.ip, now)
        answer == IF ~lim.allowed THEN RateLimited
                  ELSE IF ~APIKeyChecker(r.key) THEN Unauthorized
                  ELSE IF ~valid THEN validation_exception_handler
                  ELSE inner
    IN  Respond(r, answer, outcome.file, outcome.calls, lim.storage,
                up, ResultOf(outcome))

\* A route with dependencies=[Depends(rate_limiter), Depends(api_key_dep)]:
\* the dependencies run in that order, then the parameters are validated,
\* then the body runs. inner and outcome are the body's response and effect.
Protected(r, valid, inner, outcome, up) ==
    LET lim == RateLimiter(storage, r.ip, now)
    IN  IF ~lim.allowed
        THEN Respond(r, RateLimited, file, <<>>, lim.storage, NoUpstream, NoResult)
        ELSE IF ~APIKeyChecker(r.key)
        THEN Respond(r, Unauthorized, file, <<>>, lim.storage, NoUpstream, NoResult)
        ELSE IF ~valid
        THEN Respond(r, validation_exception_handler, file, <<>>, lim.storage,
                     NoUpstream, NoResult)
        ELSE Respond(r, inner, outcome.file, outcome.calls, lim.storage,
                     up, ResultOf(outcome))

\* GET /health
health(r) ==
    /\ r.route = "/health"
    /\ Respond(r, Success([status |-> "ok"]), file, <<>>, storage, NoUpstream, NoResult)

\* GET /v1/teams
get_teams(r, up) ==
    /\ r.route = "/v1/teams"
    /\ LET outcome == list_teams(file, now, up)
       IN  Protected(r, r.season = 0 \/ (r.season >= 2000 /\ r.season <= 2100),
                     DataResponse(outcome), outcome, up)

\* The route's call yahoo_client.get_roster(settings, team_key): the function
\* takes (settings, team_key, week), so the call raises TypeError before any
\* of its body runs.
get_roster_call(f, team_key) == Raised(f, <<>>)

\* GET /v1/roster
get_roster_route(r) ==
    /\ r.route = "/v1/roster"
    /\ LET outcome == get_roster_call(file, r.team_key)
       IN  Protected(r, TeamKeyValid(r.team_key), DataResponse(outcome), outcome,
                     NoUpstream)

\* The route's call yahoo_client.get_free_agents(...): the module defines no
\* such function, so the attribute lookup raises AttributeError.
get_free_agents_call(f, team_key) == Raised(f, <<>>)

\* GET /v1/free-agents
get_free_agents_route(r) ==
    /\ r.route = "/v1/free-agents"
    /\ LET outcome == get_free_agents_call(file, r.team_key)
       IN  Protected(r, TeamKeyValid(r.team_key) /\ r.limit >= 1 /\ r.limit <= 50,
                     DataResponse(outcome), outcome, NoUpstream)

\* A split of the team key at its first ".l." instead.
SplitAtL(team_key) ==
    LET at == {i \in 1..Len(team_key) : Literal(team_key, i, <<".", "l", ".">>)}
    IN  IF at = {} THEN team_key
        ELSE SubSeq(team_key, 1, (CHOOSE i \in at : \A j \in at : i <= j) - 1)

\* team_key.split(".t.")[0]
SplitAtT(team_key) ==
    LET at == {i \in 1..Len(team_key) : Literal(team_key, i, <<".", "t", ".">>)}
    IN  IF at = {} THEN team_key
        ELSE SubSeq(team_key, 1, (CHOOSE i \in at : \A j \in at : i <= j) - 1)

\* lk = league_key or team_key.split(".t.")[0]
WaiversLeagueKey(league_key, team_key) ==
    IF league_key = <<>> \/ league_key[1] = <<>> THEN SplitAtT(team_key)
    ELSE league_key[1]

\* GET /v1/waivers
get_waivers_route(r, up) ==
    /\ r.route = "/v1/waivers"
    /\ LET valid == TeamKeyValid(r.team_key)
           outcome == IF valid
                      THEN get_waivers(file, WaiversLeagueKey(r.league_key, r.team_key[1]),
                                       r.team_key[1], now, up)
                      ELSE Raised(file, <<>>)
       IN  Protected(r, valid, DataResponse(outcome), outcome, up)

\* [FavoriteTeam(**f) for f in enriched]: the model requires team_name and
\* roster, and no enriched entry has a roster, so building the first one
\* raises ValidationError.
FavoritesResponse(outcome) ==
    IF outcome.kind # "ok" THEN Unhandled
    ELSE IF outcome.ret[1] = <<>> THEN Success([favorites |-> <<>>])
    ELSE Unhandled

\* GET /v1/favorites
get_favorites(r, up) ==
    /\ r.route = "/v1/favorites"
    /\ LET outcome == enrich_favorites(file, favorite_teams(settings.FAVORITE_TEAMS),
                                       now, up)
       IN  Protected(r, TRUE, FavoritesResponse(outcome), outcome, up)

\* GET /v1/auth/url
get_auth_url(r) ==
    /\ r.route = "/v1/auth/url"
    /\ LET outcome == build_authorization_url(file, r.state, r.redirect_uri)
       IN  Protected(r, r.state # "", AuthResponse(outcome), outcome, NoUpstream)

\* POST /v1/auth/token with a JSON body: AuthCodeRequest requires code, of
\* length >= 1.
exchange_auth_code(r, up) ==
    /\ r.route = "/v1/auth/token"
    /\ LET outcome == exchange_authorization_code(file, r.code, r.redirect_uri,
                                                  r.state, up, now)
       IN  Protected(r, ~Falsy(r.code), AuthResponse(outcome), outcome, up)

\* Time passes; the storage's timer drops what expired.
Tick ==
    /\ req.route = "none"
    /\ now + TickStep <= MaxTime
    /\ now' = now + TickStep
    /\ storage' = StorageExpire(storage, now')
    /\ UNCHANGED <<settings, logLevel, yfa, file, req, resp, calls, upstream, result, run>>

(***************************************************************************)
(* The inputs the model draws from.                                        *)
(***************************************************************************)
\* Team keys: two that match the pattern, and near misses.
TK1 == <<"4", ".", "l", ".", "7", ".", "t", ".", "4">>
TK2 == <<"4", "7", ".", "l", ".", "4", ".", "t", ".", "7", "7">>
LK1 == <<"4", ".", "l", ".", "7">>
BadTeamKeys ==
    { <<>>,
      <<"b", "a", "d">>,
      LK1,
      <<"4", ".", "l", ".", "7", ".", "t", ".">>,
      <<"4", ".", "l", ".", "7", ".", "t", ".", "4", "x">>,
      <<"x", "4", ".", "l", ".", "7", ".", "t", ".", "4">>,
      <<"4", "x", "l", "x", "7", "x", "t", "x", "4">>,
      <<".", "l", ".", "7", ".", "t", ".", "4">> }
TeamKeys == {TK1, TK2} \cup BadTeamKeys
\* The team_key parameter: absent, or present with a value.
TeamKeyParams == {<<>>} \cup {<<k>> : k \in TeamKeys}

\* X-API-Key and X-Request-Id headers.
Keys == {None, "k1", "bad"}
Rids == {None, "", "r1"}

\* A request of a route from headers h, every parameter absent.
Request(route, h) ==
    [route |-> route, ip |-> h.ip, key |-> h.key, rid |-> h.rid,
     team_key |-> <<>>, league_key |-> <<>>, season |-> 0, limit |-> 5,
     code |-> None, state |-> None, redirect_uri |-> None]

\* The upstream's league listing, roster and transactions of the data routes.
SampleTeams ==
    << [team_key |-> TK1, name |-> "Team Four", team_name |-> None,
        waiver_priority |-> Str(3)],
       [team_key |-> TK2, name |-> None, team_name |-> None,
        waiver_priority |-> NoVal] >>
SampleLeagues ==
    << [lid |-> LK1, league_key |-> <<>>, name |-> "League Seven",
        metadata_name |-> None, teams |-> SampleTeams] >>
SampleRoster ==
    << [name |-> "Player A", full |-> None, full_name |-> None,
        display_position |-> None, position |-> "QB",
        selected_position |-> None, status |-> None],
       [name |-> None, full |-> None, full_name |-> None,
        display_position |-> "RB", position |-> None,
        selected_position |-> "BN", status |-> "Q"] >>

\* The league settings the library answers with.
SampleSettings ==
    [waiver_type |-> "FR", waiver_rule |-> "all", uses_faab |-> None,
     waiver_time |-> Num(2), name |-> "League Seven"]

\* Strings of the transactions answers.
PlayerA == JStr(<<"A">>)
AddType == JStr(<<"a", "d", "d">>)
DropType == JStr(<<"d", "r", "o", "p">>)

\* The transactions answer around its "transactions" value.
Doc(transactions) ==
    JDict(<<Entry("fantasy_content",
                  JDict(<<Entry("league",
                                JList(<<JDict(<<Entry("league_key", JStr(LK1))>>),
                                        JDict(<<Entry("transactions", transactions)>>)>>))>>))>>)

\* The entry of a dict under a key, none when the value is Absent.
Opt(key, val) == IF val = Absent THEN <<>> ELSE <<Entry(key, val)>>
\* The nesting of one transaction record, each level with the keys given.
Name(full) == JDict(Opt("full", full))
Player(name) == JList(<<JDict(Opt("name", name))>>)
Act(player, txd) == JDict(Opt("player", player) \o Opt("transaction_data", txd))
Trx(type, faab, players) ==
    JDict(<<Entry("transaction",
                  JDict(Opt("type", type) \o Opt("faab_bid", faab) \o Opt("players", players)))>>)

\* A keyed mapping of the items, as the upstream sends lists: under "0", "1",
\* ... followed by their count.
Keyed(items) ==
    JDict([i \in 1..Len(items) |-> Entry(<<"0", "1", "2", "3">>[i], items[i])]
          \o <<Entry("count", JNum(Len(items)))>>)

\* Well-formed actions: a player added, a player dropped from team TK1.
AddAction == Act(Player(Name(PlayerA)), Absent)
DropAction ==
    Act(Player(Name(JStr(<<"B">>))),
        JDict(<<Entry("type", DropType), Entry("source_team_key", JStr(TK1))>>))

\* A well-formed transaction record: an add for 47 FAAB with two players.
SampleTransaction == Trx(AddType, JStr(<<"4", "7">>), Keyed(<<AddAction, DropAction>>))

\* The answer of the transactions call of the data routes: a keyed mapping
\* with one record and its count.
SampleData == Doc(Keyed(<<SampleTransaction>>))

\* How the upstream behaves towards a data operation: whether a token refresh
\* succeeds, whether the library calls succeed, whether the raw REST call does.
DataUps ==
    { [kind |-> "data", refresh |-> rf, tokens |-> <<"at9">>, api |-> a, rest |-> rs,
       leagues |-> SampleLeagues, teams |-> SampleTeams,
       roster |-> SampleRoster, st |-> SampleSettings, data |-> SampleData] :
      rf \in BOOLEAN, a \in {"ok", "error"}, rs \in {"ok", "error"} }

\* Token-endpoint answers: the JSON object of a response.
Payload(at, rt, tt, exp, scope, guid) ==
    [access_token |-> at, refresh_token |-> rt, token_type |-> tt,
     expires_in |-> exp, scope |-> scope, xoauth_yahoo_guid |-> guid,
     id_token |-> None]
NoPayload == Payload(None, None, None, NoVal, None, None)

\* Payloads holding the three required token fields.
CompletePayloads ==
    { Payload(at, "rt1", "bearer", exp, scope, guid) :
        at \in {"at1", "at2"},
        exp \in {NoVal, Num(ExpiresIn), Str(ExpiresIn)},
        scope \in {None, "fspt-r"},
        guid \in {None, "guid1"} }
\* Payloads lacking one of them (missing, or empty).
IncompletePayloads ==
    { Payload(None, "rt1", "bearer", Num(ExpiresIn), None, None),
      Payload("at1", None, "bearer", Num(ExpiresIn), None, "guid1"),
      Payload("at1", "rt1", None, Num(ExpiresIn), None, None),
      Payload("", "rt1", "bearer", Num(ExpiresIn), None, None) }

TokenResponse(status, json, payload) ==
    [kind |-> "response", status |-> status, json |-> json, payload |-> payload]
\* The answers that are no usable token response: the POST fails, an error
\* status, a body that is not JSON.
FailedTokenUps ==
    { [kind |-> "network_error", status |-> 0, json |-> FALSE, payload |-> NoPayload],
      TokenResponse(400, TRUE, NoPayload),
      TokenResponse(401, TRUE, NoPayload),
      TokenResponse(500, FALSE, NoPayload),
      TokenResponse(200, FALSE, NoPayload) }
TokenUps ==
    FailedTokenUps
    \cup {TokenResponse(200, TRUE, p) : p \in CompletePayloads \cup IncompletePayloads}
\* The answers the facade is explored with.
FacadeTokenUps ==
    FailedTokenUps
    \cup {TokenResponse(200, TRUE, p) : p \in IncompletePayloads}
    \cup {TokenResponse(200, TRUE, Payload("at1", "rt1", "bearer", Num(ExpiresIn),
                                            "fspt-r", "guid1"))}

\* Credential files the service may find at start-up: none, one that is not
\* JSON, one seeded with the consumer credentials, one holding tokens.
SeedData == [EmptyData EXCEPT !.consumer_key = "ck", !.consumer_secret = "cs"]
TokenData ==
    [SeedData EXCEPT !.access_token = "at0", !.refresh_token = "rt0",
                     !.token_type = "bearer", !.token_time = Num(0),
                     !.expires_in = Num(ExpiresIn), !.scope = "old-scope",
                     !.guid = "guid0", !.state = "st0"]
InitialFiles == {FileAbsent, FileInvalid, FileOf(SeedData), FileOf(TokenData)}

\* FAVORITE_TEAMS settings: empty, blank, and one bare team key.
FavoriteConfigs == {<<>>, <<" ">>, TK1}

(***************************************************************************)
(* The service: its deployments, initial state and steps.                  *)
(***************************************************************************)
\* Settings: API_KEY and FAVORITE_TEAMS as settings.py declares them, and
\* the consumer key, secret and redirect URI yahoo_client.py reads from it.
SettingsOf(api_key, consumer_key, consumer_secret, favorites) ==
    [API_KEY |-> api_key,
     YAHOO_CONSUMER_KEY |-> consumer_key,
     YAHOO_CONSUMER_SECRET |-> consumer_secret,
     YAHOO_REDIRECT_URI |-> None,
     FAVORITE_TEAMS |-> favorites]

\* A deployment: the settings, the logging level, whether yahoo_fantasy_api
\* is installed, and the credential file found at start-up.
Deployment(s, level, lib, f) ==
    [settings |-> s, logLevel |-> level, yfa |-> lib, file |-> f]

\* The deployments the facade is explored in. The first is the service as
\* shipped: an API key, the logging module left at its default level WARNING,
\* a credential file with tokens.
Deployments ==
    { Deployment(SettingsOf("k1", "ck", "cs", <<>>), "WARNING", TRUE, FileOf(TokenData)),
      Deployment(SettingsOf("k1", None, None, TK1), "CRITICAL", TRUE, FileOf(SeedData)),
      Deployment(SettingsOf("k1", None, None, <<" ">>), "CRITICAL", FALSE, FileAbsent),
      Deployment(SettingsOf(None, "ck", "cs", TK1), "WARNING", TRUE, FileInvalid) }

\* No request is being handled.
NoRequest == Request("none", [ip |-> "ip1", key |-> None, rid |-> None])
NoResponse ==
    [status |-> 0, shape |-> "none", code |-> None, message |-> None,
     keys |-> {}, rid |-> None, body |-> <<>>]

\* A temporary file of _write_oauth_data: none, just created, partly
\* written, or holding the whole dump.
NoTmp == [state |-> "none", data |-> EmptyData]
\* The calls that run at the same time on the credential file: two
\* exchanges, each at its position pc with the record it loaded, the record
\* it stores and its temporary file, and one reader with what it loaded last;
\* renames lists the exchanges in the order of their os.replace.
Writers == {"w1", "w2"}
NoRun ==
    [writers |-> [w \in Writers |->
                    [pc |-> "start", loaded |-> EmptyData, stored |-> EmptyData,
                     tmp |-> NoTmp, raised |-> FALSE]],
     reader |-> [loads |-> 0, ok |-> TRUE, status |-> 0, seen |-> EmptyData,
                 refreshed |-> FALSE, token |-> None],
     renames |-> <<>>]

InitOf(d) ==
    /\ settings = d.settings
    /\ logLevel = d.logLevel
    /\ yfa = d.yfa
    /\ file = d.file
    /\ now = 0
    /\ storage = [ip \in IPs |-> [count |-> 0, expiry |-> 0]]
    /\ req = NoRequest
    /\ resp = NoResponse
    /\ calls = <<>>
    /\ upstream = NoUpstream
    /\ result = NoResult
    /\ run = NoRun

Init == \E d \in Deployments : InitOf(d)

\* The response has been delivered; the service waits for the next request.
\* (The routes are coroutines that never await: requests are handled one at
\* a time.)
Delivered ==
    /\ req # NoRequest
    /\ req' = NoRequest
    /\ resp' = NoResponse
    /\ calls' = <<>>
    /\ upstream' = NoUpstream
    /\ result' = NoResult
    /\ UNCHANGED <<settings, logLevel, yfa, now, storage, file, run>>

Headers == [ip : IPs, key : Keys, rid : Rids]

\* The upstream behaviours that differ for an operation making no raw REST
\* call of its own.
LibraryUps == {up \in DataUps : up.rest = "ok"}
OneUp == CHOOSE up \in DataUps : up.refresh /\ up.api = "ok" /\ up.rest = "ok"

\* The nfl_season values (0: absent) of GET /v1/teams with the upstream
\* behaviours they meet.
TeamsCalls ==
    {<<0, up>> : up \in LibraryUps} \cup {<<1999, OneUp>>, <<2024, OneUp>>}

\* The team_key and league_key of GET /v1/waivers with the upstream
\* behaviours they meet: every behaviour for the valid keys; league_key is
\* absent, a league key, or the empty string of "?league_key=".
WaiversCalls ==
    {<<<<tk>>, lk, up>> : tk \in {TK1, TK2}, lk \in {<<>>, <<LK1>>, <<<<>>>>}, up \in DataUps}
    \cup {<<tk, <<>>, OneUp>> : tk \in TeamKeyParams}

\* The team_key and limit of GET /v1/free-agents.
FreeAgentsCalls ==
    {<<tk, 5>> : tk \in TeamKeyParams} \cup {<<<<TK1>>, 0>>, <<<<TK1>>, 51>>}

\* The bodies of POST /v1/auth/token and the token-endpoint answers they meet.
TokenCalls ==
    {<<code, None, up>> : code \in {None, "", " "}, up \in {TokenResponse(401, TRUE, NoPayload)}}
    \cup {<<"abc", None, up>> : up \in FacadeTokenUps}
    \cup {<<"abc", "st1", up>> : up \in FacadeTokenUps}

\* Whether the service is between requests.
Idle == req.route = "none"

\* A request arrives at a route and is handled.
HealthRequest ==
    Idle /\ \E h \in Headers : health(Request("/health", h))

TeamsRequest ==
    Idle /\ \E h \in Headers, c \in TeamsCalls :
        get_teams([Request("/v1/teams", h) EXCEPT !.season = c[1]], c[2])

RosterRequest ==
    Idle /\ \E h \in Headers, tk \in TeamKeyParams :
        get_roster_route([Request("/v1/roster", h) EXCEPT !.team_key = tk])

FreeAgentsRequest ==
    Idle /\ \E h \in Headers, c \in FreeAgentsCalls :
        get_free_agents_route([Request("/v1/free-agents", h) EXCEPT
                                  !.team_key = c[1], !.limit = c[2]])

WaiversRequest ==
    Idle /\ \E h \in Headers, c \in WaiversCalls :
        get_waivers_route([Request("/v1/waivers", h) EXCEPT
                              !.team_key = c[1], !.league_key = c[2]], c[3])

FavoritesRequest ==
    Idle /\ \E h \in Headers, up \in LibraryUps :
        get_favorites(Request("/v1/favorites", h), up)

AuthUrlRequest ==
    Idle /\ \E h \in Headers, state \in {None, "", "st1"} :
        get_auth_url([Request("/v1/auth/url", h) EXCEPT !.state = state])

AuthTokenRequest ==
    Idle /\ \E h \in Headers, c \in TokenCalls :
        exchange_auth_code([Request("/v1/auth/token", h) EXCEPT
                               !.code = c[1], !.state = c[2]], c[3])

Next ==
    \/ Tick
    \/ Delivered
    \/ HealthRequest
    \/ TeamsRequest
    \/ RosterRequest
    \/ FreeAgentsRequest
    \/ WaiversRequest
    \/ FavoritesRequest
    \/ AuthUrlRequest
    \/ AuthTokenRequest

Spec == Init /\ [][Next]_vars


(***************************************************************************)
(* The OAuth operations called directly, over every token-endpoint answer. *)
(***************************************************************************)
\* The deployments the OAuth operations are explored in.
OAuthDeployments ==
    { Deployment(SettingsOf(None, c[1], c[2], <<>>), level, TRUE, f) :
        c \in {<<None, None>>, <<"ck", "cs">>},
        level \in {"WARNING", "CRITICAL"},
        f \in InitialFiles }

OAuthInit == \E d \in OAuthDeployments : InitOf(d)

\* A direct call of an adapter operation, recorded like a request.
Call(name, code, state, redirect_uri) ==
    [Request(name, [ip |-> "ip1", key |-> None, rid |-> None]) EXCEPT
        !.code = code, !.state = state, !.redirect_uri = redirect_uri]

\* The operation ran: its effect on the file, its calls and its result.
Ran(call, outcome, up) ==
    /\ req' = call
    /\ file' = outcome.file
    /\ calls' = outcome.calls
    /\ upstream' = up
    /\ result' = ResultOf(outcome)
    /\ UNCHANGED <<settings, logLevel, yfa, now, storage, resp, run>>

\* The arguments of exchange_authorization_code.
ExchangeArgs ==
    {<<"abc", state, redirect>> : state \in {None, "st1"}, redirect \in {None, "cb"}}
    \cup {<<"", None, None>>, <<" ", None, None>>}

ExchangeCall ==
    Idle /\ \E a \in ExchangeArgs, up \in TokenUps :
        Ran(Call("exchange_authorization_code", a[1], a[2], a[3]),
            exchange_authorization_code(file, a[1], a[3], a[2], up, now), up)

BuildUrlCall ==
    Idle /\ \E state \in {None, "", "st1"}, redirect \in {None, "cb"} :
        Ran(Call("build_authorization_url", None, state, redirect),
            build_authorization_url(file, state, redirect), NoUpstream)

OAuthNext ==
    \/ Tick
    \/ Delivered
    \/ ExchangeCall
    \/ BuildUrlCall

OAuthSpec == OAuthInit /\ [][OAuthNext]_vars


(***************************************************************************)
(* The data operations of the adapter, called directly.                    *)
(***************************************************************************)
\* Upstream behaviours towards the data operations, among them refreshes
\* that succeed without yielding an access token, once or every time.
AdapterUps ==
    DataUps
    \cup { [up EXCEPT !.tokens = tk] :
             up \in {u \in DataUps : u.refresh /\ u.api = "ok"},
             tk \in {<<"", "at9">>, <<"", "">>} }

\* A credential file with tokens issued long ago, next to the initial ones.
AdapterFiles == InitialFiles \cup {FileOf([TokenData EXCEPT !.token_time = Num(0 - Minute)])}

\* FAVORITE_TEAMS settings of the adapter's deployments: none; a team of the
\* listing; that team, a team unknown to the listing in a league of it, and a
\* team of an unknown league; a team of the listing paired with another
\* league's key.
AdapterFavorites ==
    { <<>>,
      TK1,
      TK1 \o <<";">> \o LK1 \o <<"|">> \o LK1 \o <<".", "t", ".", "7">>
          \o <<";", "4", "7", ".", "l", ".", "4", ".", "t", ".", "4">>,
      <<"4", ".", "l", ".", "4", "|">> \o TK1 }

AdapterDeployments ==
    { Deployment(SettingsOf(None, "ck", "cs", favs), "WARNING", lib, f) :
        lib \in BOOLEAN, f \in AdapterFiles, favs \in AdapterFavorites }

AdapterInit == \E d \in AdapterDeployments : InitOf(d)

\* What a call of get_session hands back: the session, or its exception.
SessionOutcome(s) ==
    IF s.ok THEN Returned([authorization |-> s.authorization], s.file, s.calls)
    ELSE Raised(s.file, s.calls)

\* The week argument of get_roster: 0 stands for None.
Weeks == {0, 3}

ListTeamsCall ==
    Idle /\ \E up \in AdapterUps :
        Ran(Call("list_teams", None, None, None), list_teams(file, now, up), up)

GetRosterCall ==
    Idle /\ \E up \in AdapterUps, tk \in {TK1, TK2}, week \in Weeks :
        Ran([Call("get_roster", None, None, None) EXCEPT
                !.team_key = <<tk>>, !.season = week],
            get_roster(file, tk, week, now, up), up)

GetWaiversCall ==
    Idle /\ \E up \in AdapterUps, tk \in {TK1, TK2} :
        Ran([Call("get_waivers", None, None, None) EXCEPT
                !.team_key = <<tk>>, !.league_key = <<LK1>>],
            get_waivers(file, LK1, tk, now, up), up)

GetSessionCall ==
    Idle /\ \E up \in AdapterUps :
        Ran(Call("get_session", None, None, None),
            SessionOutcome(get_session(file, now, up)), up)

\* enrich_favorites on the configured favorites, as GET /v1/favorites calls it.
EnrichFavoritesCall ==
    Idle /\ \E up \in AdapterUps :
        Ran(Call("enrich_favorites", None, None, None),
            enrich_favorites(file, favorite_teams(settings.FAVORITE_TEAMS), now, up), up)

\* An exchange among the data operations: it is what writes the file.
AdapterExchangeCall ==
    Idle /\ \E up \in FacadeTokenUps :
        Ran(Call("exchange_authorization_code", "abc", None, None),
            exchange_authorization_code(file, "abc", None, None, up, now), up)

AdapterNext ==
    \/ Tick
    \/ Delivered
    \/ AdapterExchangeCall
    \/ ListTeamsCall
    \/ GetRosterCall
    \/ GetWaiversCall
    \/ GetSessionCall
    \/ EnrichFavoritesCall

AdapterSpec == AdapterInit /\ [][AdapterNext]_vars

(***************************************************************************)
(* _parse_waiver_transactions applied to transactions answers of every     *)
(* shape.                                                                  *)
(***************************************************************************)
\* The values "faab_bid" takes: missing, null, a number, a numeric and a
\* non-numeric string, a list.
FaabBids == {Absent, JNone, JNum(4), JStr(<<"4", "7">>), JStr(<<"x">>), JList(<<>>)}

\* The values "player" takes: a list of one dict whose "name" is a mapping
\* (with, without or with a null "full"), missing, a string or null; an empty
\* list, a list of a string, a dict, null.
Players ==
    { Player(n) : n \in {Name(PlayerA), Name(Absent), Name(JNone), Absent, PlayerA, JNone} }
    \cup {JList(<<>>), JList(<<PlayerA>>), JDict(<<>>), JNone}

\* The entries of "players": actions over every player value, actions whose
\* transaction_data is a dict or a list, an entry without "player", a count.
Actions ==
    { Act(p, Absent) : p \in Players }
    \cup {DropAction, Act(Player(Name(PlayerA)), JList(<<>>)), Act(Absent, Absent), JNum(1)}

\* The entries of "transactions": records over every faab_bid, records whose
\* "players" is missing, null, a string, a list or a keyed mapping; entries
\* whose "transaction" is a list or null, an entry without "transaction", a
\* count.
WaiverRecords ==
    { Trx(AddType, f, Keyed(<<AddAction>>)) : f \in FaabBids }
    \cup { Trx(Absent, JNone, JList(<<a>>)) : a \in Actions }
    \cup { Trx(Absent, JNone, pl) : pl \in {Absent, JNone, PlayerA} }
    \cup { SampleTransaction,
           JDict(<<Entry("transaction", JList(<<>>))>>),
           JDict(<<Entry("transaction", JNone)>>),
           JDict(<<>>), JNum(1) }

\* The lists of at most MaxRecords entries.
RecordLists == UNION { [1..n -> WaiverRecords] : n \in 0..MaxRecords }

\* Answers that lack the path to "transactions" at one of its steps.
PathlessDocs ==
    { JNone, JDict(<<>>),
      JDict(<<Entry("fantasy_content", JList(<<>>))>>),
      JDict(<<Entry("fantasy_content", JDict(<<Entry("league", JDict(<<>>))>>))>>),
      JDict(<<Entry("fantasy_content", JDict(<<Entry("league", JList(<<JDict(<<>>)>>))>>))>>),
      JDict(<<Entry("fantasy_content",
                    JDict(<<Entry("league", JList(<<JDict(<<>>), JDict(<<>>)>>))>>))>>) }

\* The answers the parser is applied to, each with the shape of its
\* "transactions" value and the entries that value holds.
WaiverDocs ==
    { [kind |-> "parse", shape |-> "list", records |-> ts, data |-> Doc(JList(ts))] :
        ts \in RecordLists }
    \cup { [kind |-> "parse", shape |-> "mapping", records |-> ts, data |-> Doc(Keyed(ts))] :
             ts \in RecordLists }
    \cup { [kind |-> "parse", shape |-> "absent", records |-> <<>>, data |-> d] :
             d \in PathlessDocs }
    \cup { [kind |-> "parse", shape |-> "other", records |-> <<>>, data |-> Doc(v)] :
             v \in {JNone, PlayerA, JNum(1)} }

ParseInit ==
    InitOf(Deployment(SettingsOf(None, "ck", "cs", <<>>), "WARNING", TRUE, FileAbsent))

\* What a call of the parser hands back: the pending list, or its exception.
ParseOutcome(parsed) ==
    IF parsed.raises THEN Raised(file, <<"_parse_waiver_transactions">>)
    ELSE Returned(parsed.pending, file, <<"_parse_waiver_transactions">>)

ParseCall ==
    Idle /\ \E doc \in WaiverDocs :
        Ran(Call("_parse_waiver_transactions", None, None, None),
            ParseOutcome(_parse_waiver_transactions(doc.data)), doc)

ParseNext ==
    \/ Delivered
    \/ ParseCall

ParseSpec == ParseInit /\ [][ParseNext]_vars

(***************************************************************************)
(* Settings.favorite_teams applied to FAVORITE_TEAMS strings.              *)
(***************************************************************************)
\* Entries of a FAVORITE_TEAMS string: with and without an alias before '@',
\* with the league key before '|' or ':' or without it, over team keys that
\* match the pattern and one that does not; an entry padded with blanks.
FavoriteEntries ==
    { alias \o league \o team :
        alias \in {<<>>, <<"A", "@">>},
        league \in {<<>>, LK1 \o <<"|">>, LK1 \o <<":">>},
        team \in {TK1, TK2, <<"x">>} }
    \cup {<<" ">> \o TK1 \o <<" ">>, LK1 \o <<"|">>}

RECURSIVE Join(_, _)
\* sep.join(parts)
Join(parts, sep) ==
    IF parts = <<>> THEN <<>>
    ELSE IF Len(parts) = 1 THEN parts[1]
    ELSE parts[1] \o sep \o Join(Tail(parts), sep)

\* The FAVORITE_TEAMS strings: empty, blank, and up to MaxFavorites entries
\* joined with ';' or ','.
FavoriteStrings ==
    {<<>>, <<" ">>}
    \cup { Join(es, sep) :
             es \in UNION { [1..n -> FavoriteEntries] : n \in 1..MaxFavorites },
             sep \in {<<";">>, <<",">>} }

FavoritesInit ==
    \E config \in FavoriteStrings :
        InitOf(Deployment(SettingsOf(None, None, None, config), "WARNING", TRUE, FileAbsent))

FavoriteTeamsCall ==
    Idle /\ Ran(Call("favorite_teams", None, None, None),
                Returned(favorite_teams(settings.FAVORITE_TEAMS), file, <<"favorite_teams">>),
                NoUpstream)

FavoritesNext ==
    \/ Delivered
    \/ FavoriteTeamsCall

FavoritesSpec == FavoritesInit /\ [][FavoritesNext]_vars

(***************************************************************************)
(* The credential file under concurrent calls: two exchanges stepping      *)
(* through exchange_authorization_code and _write_oauth_data, a reader     *)
(* calling _load_oauth_data, and a token refresh.                          *)
(***************************************************************************)
\* tempfile.mkstemp: a new, empty temporary file.
Mkstemp == [state |-> "empty", data |-> EmptyData]

\* An os.replace that leaves in the credential file the members the
\* temporary file has no value for.
ReplacedMerged(f, tmp) ==
    FileOf([key \in DOMAIN EmptyData |->
               IF tmp.data[key] = (IF key \in NumericKeys THEN NoVal ELSE None)
               THEN f.data[key] ELSE tmp.data[key]])

\* The credential file after os.replace(tmp_path, path): it holds what the
\* temporary file held.
Replaced(f, tmp) ==
    IF tmp.state = "complete" THEN FileOf(tmp.data) ELSE FileInvalid

\* The temporary file after one more write of the dump.
Written(tmp, stored) ==
    IF tmp.state = "empty" THEN [state |-> "partial", data |-> EmptyData]
    ELSE [state |-> "complete", data |-> JsonLoad(JsonDump(stored))]

\* A dump written into the credential file itself.
DumpedInPlace(f, tmp, stored) ==
    [file |-> Replaced(f, Written(tmp, stored)), tmp |-> Written(tmp, stored)]

\* The credential file and the temporary file after one write of
\* json.dump(data, handle): the handle is the temporary file's.
Dumped(f, tmp, stored) ==
    [file |-> f, tmp |-> Written(tmp, stored)]

\* The exchange each writer makes: the token response it gets and the state
\* it was called with.
WriterCall(w) ==
    IF w = "w1"
    THEN [payload |-> Payload("at1", "rt1", "bearer", Num(ExpiresIn), "fspt-r", "guid1"),
          state |-> "st1"]
    ELSE [payload |-> Payload("at2", "rt2", "bearer", NoVal, None, None),
          state |-> None]

\* Writer w moves on with record rec; the credential file becomes f.
WriterStep(w, rec, f) ==
    /\ run' = [run EXCEPT !.writers[w] = rec]
    /\ file' = f
    /\ UNCHANGED <<settings, logLevel, yfa, now, storage, req, resp, calls, upstream, result>>

\* data = _load_oauth_data(settings) at the start of the exchange.
WLoad(w) ==
    LET me == run.writers[w]
        loaded == _load_oauth_data(file)
    IN  /\ me.pc = "start"
        /\ WriterStep(w, IF loaded.ok
                         THEN [me EXCEPT !.pc = "loaded", !.loaded = loaded.data]
                         ELSE [me EXCEPT !.pc = "done", !.raised = TRUE], file)

\* The token POST and the record built from its answer.
WPost(w) ==
    LET me == run.writers[w]
        creds == _resolve_credentials(me.loaded)
        call == WriterCall(w)
    IN  /\ me.pc = "loaded"
        /\ WriterStep(w, [me EXCEPT !.pc = "built",
                                    !.stored = StoredRecord(me.loaded, creds, creds.redirect_uri,
                                                            call.payload, call.state, now)],
                      file)

\* _write_oauth_data: mkstemp in the directory of the file.
WMkstemp(w) ==
    LET me == run.writers[w]
    IN  /\ me.pc = "built"
        /\ WriterStep(w, [me EXCEPT !.pc = "writing", !.tmp = Mkstemp], file)

\* json.dump and handle.write, one write at a time.
WDump(w) ==
    LET me == run.writers[w]
        after == Dumped(file, me.tmp, me.stored)
    IN  /\ me.pc = "writing"
        /\ WriterStep(w, [me EXCEPT !.tmp = after.tmp,
                                    !.pc = IF after.tmp.state = "complete"
                                           THEN "dumped" ELSE "writing"],
                      after.file)

\* A write that fails (the disk is full): the exception leaves through the
\* finally clause.
WDumpFails(w) ==
    LET me == run.writers[w]
    IN  /\ me.pc = "writing"
        /\ WriterStep(w, [me EXCEPT !.pc = "finally", !.raised = TRUE], file)

\* os.replace(tmp_path, path)
WReplace(w) ==
    LET me == run.writers[w]
    IN  /\ me.pc = "dumped"
        /\ run' = [run EXCEPT !.writers[w] = [me EXCEPT !.pc = "replaced", !.tmp = NoTmp],
                              !.renames = Append(@, w)]
        /\ file' = Replaced(file, me.tmp)
        /\ UNCHANGED <<settings, logLevel, yfa, now, storage, req, resp, calls, upstream,
                       result>>

\* os.chmod(path, 0o600), a PermissionError ignored.
WChmod(w) ==
    LET me == run.writers[w]
    IN  /\ me.pc = "replaced"
        /\ WriterStep(w, [me EXCEPT !.pc = "finally"], file)

\* finally: the temporary file is removed if it still exists.
WFinally(w) ==
    LET me == run.writers[w]
    IN  /\ me.pc = "finally"
        /\ WriterStep(w, [me EXCEPT !.pc = "done", !.tmp = NoTmp], file)

\* The reader calls _load_oauth_data.
RLoad ==
    LET loaded == _load_oauth_data(file)
    IN  /\ run.reader.loads < MaxLoads
        /\ run' = [run EXCEPT !.reader.loads = @ + 1,
                              !.reader.ok = loaded.ok,
                              !.reader.status = loaded.status,
                              !.reader.seen = loaded.data]
        /\ UNCHANGED <<settings, logLevel, yfa, now, storage, file, req, resp, calls,
                       upstream, result>>

\* A data request refreshes the expired token through _get_oauth.
Refresh ==
    LET oauth == _get_oauth(file, now, OneUp)
    IN  /\ ~run.reader.refreshed
        /\ oauth.refreshes > 0
        /\ run' = [run EXCEPT !.reader.refreshed = TRUE, !.reader.token = oauth.token]
        /\ file' = oauth.file
        /\ UNCHANGED <<settings, logLevel, yfa, now, storage, req, resp, calls, upstream,
                       result>>

FileInit ==
    \E f \in AdapterFiles :
        InitOf(Deployment(SettingsOf(None, "ck", "cs", <<>>), "WARNING", TRUE, f))

FileNext ==
    \/ \E w \in Writers : WLoad(w)
    \/ \E w \in Writers : WPost(w)
    \/ \E w \in Writers : WMkstemp(w)
    \/ \E w \in Writers : WDump(w)
    \/ \E w \in Writers : WDumpFails(w)
    \/ \E w \in Writers : WReplace(w)
    \/ \E w \in Writers : WChmod(w)
    \/ \E w \in Writers : WFinally(w)
    \/ RLoad
    \/ Refresh

FileSpec == FileInit /\ [][FileNext]_vars

(***************************************************************************)
(* Properties of the credential file (specification FileSpec).             *)
(***************************************************************************)
\* The writer whose rename was the last one.
LastWriter == run.renames[Len(run.renames)]

\* C24: under every interleaving of the writers with the reader, a file that
\* holds a complete document keeps holding one, each change of the file puts
\* one writer's full record in place, a load made after a save finds a
\* complete record, the file is never deleted, and a save that has returned
\* or raised has left no temporary file.
C24_Atomic ==
    /\ [](run.renames # <<>> => file.exists /\ file.valid)
    /\ [](\A w \in Writers : run.writers[w].pc = "done" => run.writers[w].tmp = NoTmp)
    /\ [][/\ file.exists => file'.exists
          /\ (file.exists /\ file.valid) => file'.valid
          /\ file' # file => \E w \in Writers : file' = FileOf(run.writers[w].stored)
          /\ (run'.reader.loads # run.reader.loads /\ run.renames # <<>>) =>
                /\ run'.reader.ok
                /\ \E w \in Writers : run'.reader.seen = run.writers[w].stored]_vars

\* The first save has returned and left no temporary file, the second is
\* half way through its dump, and the reader has loaded the first record
\* from the file, which still holds it.
C24_Witness ==
    /\ run.writers["w1"].pc = "done"
    /\ ~run.writers["w1"].raised
    /\ run.writers["w1"].tmp = NoTmp
    /\ run.writers["w2"].tmp.state = "partial"
    /\ file.exists /\ file.valid
    /\ file.data.access_token = "at1"
    /\ run.reader.loads > 0
    /\ run.reader.seen = file.data

\* The step is a load by the reader.
ReaderLoads == run'.reader.loads # run.reader.loads

\* The step is a token refresh.
Refreshes == run'.reader.refreshed /\ ~run.reader.refreshed

\* Both exchanges have completed without an error.
BothComplete ==
    \A w \in Writers : run.writers[w].pc = "done" /\ ~run.writers[w].raised

\* The file holds the full record of the writer whose rename was last, and
\* the tokens of that writer only.
LastWriterWins ==
    /\ Len(run.renames) = Cardinality(Writers)
    /\ file = FileOf(run.writers[LastWriter].stored)
    /\ file.data.access_token = WriterCall(LastWriter).payload.access_token
    /\ file.data.refresh_token = WriterCall(LastWriter).payload.refresh_token
    /\ \A w \in Writers \ {LastWriter} :
          /\ file.data.access_token # WriterCall(w).payload.access_token
          /\ file.data.refresh_token # WriterCall(w).payload.refresh_token

\* A writer raises only when the file it loads is not valid JSON or when its
\* own write fails: never because of the other writer.
RaisesAlone ==
    \A w \in Writers :
        (run'.writers[w].raised /\ ~run.writers[w].raised)
            => (run.writers[w].pc = "writing" \/ (file.exists /\ ~file.valid))

Present(key, v) == v # (IF key \in NumericKeys THEN NoVal ELSE None)

\* The record new keeps, for each optional key the call does not supply, the
\* value of the record old, and has a value wherever old has one.
CarriedOver(old, call, new) ==
    /\ new.expires_in = IF call.payload.expires_in # NoVal
                        THEN call.payload.expires_in ELSE old.expires_in
    /\ new.scope = IF call.payload.scope # None THEN call.payload.scope ELSE old.scope
    /\ new.guid = IF call.payload.xoauth_yahoo_guid # None
                  THEN call.payload.xoauth_yahoo_guid ELSE old.guid
    /\ new.id_token = IF call.payload.id_token # None
                      THEN call.payload.id_token ELSE old.id_token
    /\ new.state = IF call.state # None THEN call.state ELSE old.state
    /\ \A key \in DOMAIN EmptyData : Present(key, old[key]) => Present(key, new[key])

\* C28: the record an exchange puts in the file is built from the record it
\* read at the start of the call: each of expires_in, scope, guid, id_token
\* and state that the exchange does not supply keeps the value it had in that
\* record, and no key that had a value there is left without one.
C28_CarryOver ==
    [][\A w \in Writers :
          (run'.renames = Append(run.renames, w))
              => CarriedOver(run.writers[w].loaded, WriterCall(w), file'.data)]_vars

\* The second exchange, which supplies none of the optional keys, renamed
\* after the first: the file holds its tokens with the scope, guid and state
\* of the record it had read at its start, before the first one's rename.
C28_Witness ==
    /\ run.renames = <<"w1", "w2">>
    /\ file.data.access_token = "at2"
    /\ run.writers["w2"].loaded.scope = "old-scope"
    /\ file.data.scope = "old-scope"
    /\ file.data.guid = "guid0"
    /\ file.data.state = "st0"
    /\ file.data.expires_in = Num(ExpiresIn)

\* C25: _load_oauth_data returns the empty record when the file is absent,
\* fails with status 500 when the file is not valid JSON, and otherwise
\* returns, field for field, the record most recently handed to
\* _write_oauth_data; a load never changes the file.
C25_RoundTrip ==
    [][ReaderLoads =>
          /\ file' = file
          /\ IF ~file.exists THEN run'.reader.ok /\ run'.reader.seen = EmptyData
             ELSE IF ~file.valid THEN ~run'.reader.ok /\ run'.reader.status = 500
             ELSE /\ run'.reader.ok
                  /\ run.renames # <<>> =>
                        run'.reader.seen = run.writers[LastWriter].stored]_vars

\* The reader has loaded the record of the first exchange, its numeric
\* expires_in included.
C25_Witness ==
    /\ run.reader.loads > 0
    /\ run.reader.ok
    /\ run.renames # <<>>
    /\ run.reader.seen.access_token = "at1"
    /\ run.reader.seen.expires_in = Num(ExpiresIn)

(***************************************************************************)
(* Properties of the facade (specification Spec).                          *)
(***************************************************************************)
\* The routes registered with the rate limiter and the API-key check.
V1Routes ==
    {"/v1/teams", "/v1/roster", "/v1/free-agents", "/v1/waivers",
     "/v1/favorites", "/v1/auth/url", "/v1/auth/token"}

\* A step in which a request arrives and is answered.
Answered == Idle /\ ~Idle'

\* The X-API-Key of a request is missing or differs from the configured key.
BadKey(r) == r.key = None \/ r.key = "" \/ r.key # settings.API_KEY

\* The quota of a client address is used up: the counter of its current
\* window has reached RATE_LIMIT_PER_MIN.
Exhausted(st, ip, t) == st[ip].expiry > t /\ st[ip].count >= RATE_LIMIT_PER_MIN

\* C1 as stated: with an API key configured, every /v1 request whose key is
\* missing or wrong is answered 401 "unauthorized", whatever the state of the
\* rate limiter, and GET /health is answered 200.
C1_Original ==
    /\ (settings.API_KEY = "k1" /\ req.route \in V1Routes /\ BadKey(req))
          => (resp.status = 401 /\ resp.code = "unauthorized")
    /\ req.route = "/health" => resp.status = 200

\* C1, amended: with an API key configured, a /v1 request whose key is missing
\* or wrong is answered 401 "unauthorized" unless the quota of its client
\* address is exhausted, in which case the rate limiter, which runs first,
\* answers 429 "rate_limited"; GET /health is answered 200 without a key.
C1_Unauthorized ==
    [][ Answered =>
          /\ (settings.API_KEY = "k1" /\ req'.route \in V1Routes /\ BadKey(req'))
                => IF Exhausted(storage, req'.ip, now)
                   THEN resp'.status = 429 /\ resp'.code = "rate_limited"
                   ELSE resp'.status = 401 /\ resp'.code = "unauthorized"
          /\ req'.route = "/health" => resp'.status = 200 ]_vars

\* A request without a key was turned away with 401 under a configured key,
\* and one with a wrong key was turned away while health answered nothing of
\* the kind.
C1_Witness ==
    /\ settings.API_KEY = "k1"
    /\ req.route = "/v1/auth/token"
    /\ req.key = "bad"
    /\ resp.status = 401
    /\ resp.code = "unauthorized"

\* C2: a request answered with the API-key failure (401 "unauthorized") or the
\* validation failure (422 "validation_error") has invoked no adapter
\* operation: nothing was called, nothing returned, no upstream was met.
C2_NoAdapterCall ==
    resp.code \in {"unauthorized", "validation_error"}
        => /\ resp.status \in {401, 422}
           /\ calls = <<>>
           /\ result = NoResult
           /\ upstream = NoUpstream

\* A waivers request with a valid key and a malformed team_key was answered
\* 422 without any adapter call.
C2_Witness ==
    /\ req.route = "/v1/waivers"
    /\ req.key = settings.API_KEY
    /\ resp.status = 422
    /\ resp.code = "validation_error"
    /\ calls = <<>>

\* C3 as stated: every response carries X-Request-Id, equal to the inbound
\* header when that is non-empty and a generated id otherwise.
C3_RequestId ==
    ~Idle => resp.rid = (IF req.rid \in {None, ""} THEN "uuid4" ELSE req.rid)

\* C4 as stated: every error response has a JSON body {code, message,
\* details?} with a string code and a string message.
C4_ErrorShape ==
    (~Idle /\ resp.status >= 400)
        => /\ resp.shape = "error"
           /\ {"code", "message"} \subseteq resp.keys
           /\ resp.keys \subseteq {"code", "message", "details"}
           /\ resp.code # None
           /\ resp.message # None

\* The team keys of ^\d+\.l\.\d+\.t\.\d+$, stated by their shape: three
\* non-empty runs of digits joined by ".l." and ".t.".
AllDigits(s) == s # <<>> /\ \A i \in 1..Len(s) : s[i] \in Digits
IsTeamKey(s) ==
    \E i \in 1..Len(s), j \in 1..Len(s) :
        /\ i + 3 < j
        /\ j + 3 <= Len(s)
        /\ AllDigits(SubSeq(s, 1, i))
        /\ SubSeq(s, i + 1, i + 3) = <<".", "l", ".">>
        /\ AllDigits(SubSeq(s, i + 4, j))
        /\ SubSeq(s, j + 1, j + 3) = <<".", "t", ".">>
        /\ AllDigits(SubSeq(s, j + 4, Len(s)))

\* C5: with a valid API key and within the rate limit, the roster, free-agents
\* and waivers routes answer 422 "validation_error" whenever team_key is
\* absent or is no team key.
C5_TeamKeyValidation ==
    [][ ( /\ Answered
          /\ req'.route \in {"/v1/roster", "/v1/free-agents", "/v1/waivers"}
          /\ ~BadKey(req')
          /\ ~Exhausted(storage, req'.ip, now)
          /\ (req'.team_key = <<>> \/ ~IsTeamKey(req'.team_key[1])) )
        => (resp'.status = 422 /\ resp'.code = "validation_error") ]_vars

\* A team key with a trailing character was refused on the roster route.
C5_Witness ==
    /\ req.route = "/v1/roster"
    /\ req.key = "k1"
    /\ settings.API_KEY = "k1"
    /\ req.team_key = << <<"4", ".", "l", ".", "7", ".", "t", ".", "4", "x">> >>
    /\ resp.status = 422
    /\ resp.code = "validation_error"

C7_RosterOk ==
    [][ ( /\ Answered
          /\ req'.route = "/v1/roster"
          /\ ~BadKey(req')
          /\ ~Exhausted(storage, req'.ip, now)
          /\ req'.team_key # <<>>
          /\ IsTeamKey(req'.team_key[1]) )
        => /\ resp'.status = 200
           /\ resp'.body # <<>>
           /\ resp'.body[1].team_key = req'.team_key[1] ]_vars

(***************************************************************************)
(* Properties of the authorization-code exchange.                          *)
(***************************************************************************)
\* exchange_authorization_code was called and the token endpoint answered
\* below 400 with JSON that holds access_token, refresh_token and token_type.
ExchangeSucceeds ==
    /\ req.route = "exchange_authorization_code"
    /\ Len(calls) = 2
    /\ upstream.kind = "response"
    /\ upstream.status < 400
    /\ upstream.json
    /\ ~Falsy(upstream.payload.access_token)
    /\ ~Falsy(upstream.payload.refresh_token)
    /\ ~Falsy(upstream.payload.token_type)

\* The file holds the three token values and the issue time, and scope, guid
\* and state where supplied; the call returned "stored" with the stored
\* token_type, guid and scope.
Persisted ==
    /\ result.kind = "ok"
    /\ file.exists /\ file.valid
    /\ file.data.access_token = upstream.payload.access_token
    /\ file.data.refresh_token = upstream.payload.refresh_token
    /\ file.data.token_type = upstream.payload.token_type
    /\ file.data.token_time = Num(now)
    /\ upstream.payload.scope # None => file.data.scope = upstream.payload.scope
    /\ upstream.payload.xoauth_yahoo_guid # None
          => file.data.guid = upstream.payload.xoauth_yahoo_guid
    /\ req.state # None => file.data.state = req.state
    /\ result.ret[1].status = "stored"
    /\ result.ret[1].token_type = file.data.token_type
    /\ result.ret[1].guid = file.data.guid
    /\ result.ret[1].scope = file.data.scope

\* C8 as stated: a successful exchange persists the tokens and returns
\* "stored" with expires_at = issue time + expires_in.
C8_Original ==
    ExchangeSucceeds =>
        /\ Persisted
        /\ IsNumber(upstream.payload.expires_in)
        /\ result.ret[1].expires_at = Num(now + upstream.payload.expires_in[2])

\* C8, amended: a successful exchange persists the tokens, the issue time and
\* the supplied scope, guid and state, and returns "stored" with the stored
\* token_type, guid and scope and with expires_at = issue time + expires_in
\* when the response carries a numeric expires_in, and a null expires_at
\* otherwise.
C8_Stored ==
    ExchangeSucceeds =>
        /\ Persisted
        /\ result.ret[1].expires_at =
             (IF IsNumber(upstream.payload.expires_in)
              THEN Num(now + upstream.payload.expires_in[2])
              ELSE NoVal)

\* An exchange after time has passed stored the tokens with scope, guid and
\* state and returned the expiry counted from the issue time.
C8_Witness ==
    /\ ExchangeSucceeds
    /\ now > 0
    /\ result.kind = "ok"
    /\ file.data.access_token = "at2"
    /\ file.data.token_time = Num(now)
    /\ file.data.scope = "fspt-r"
    /\ file.data.guid = "guid1"
    /\ file.data.state = "st1"
    /\ result.ret[1].expires_at = Num(now + ExpiresIn)

\* C9: when the token endpoint answers 200 with JSON that lacks refresh_token,
\* exchange_authorization_code raises the OAuth error with status 502 and
\* leaves the credential file as it was.
C9_NoRefreshToken ==
    [][ ( /\ Idle
          /\ req'.route = "exchange_authorization_code"
          /\ Len(calls') = 2
          /\ upstream'.kind = "response"
          /\ upstream'.status = 200
          /\ upstream'.json
          /\ Falsy(upstream'.payload.refresh_token) )
        => /\ result'.kind = "oauth_error"
           /\ result'.status = 502
           /\ file' = file ]_vars

\* A response with an access token and no refresh token was refused with 502
\* and the tokens stored before are still in the file.
C9_Witness ==
    /\ req.route = "exchange_authorization_code"
    /\ upstream.kind = "response"
    /\ upstream.status = 200
    /\ upstream.payload.access_token = "at1"
    /\ upstream.payload.refresh_token = None
    /\ result.kind = "oauth_error"
    /\ result.status = 502
    /\ file = FileOf(TokenData)

\* C10 as stated: a failed exchange raises the OAuth error with the upstream
\* status for an upstream error, 502 when the endpoint is unreachable or its
\* body is no JSON, and 400 when a required token field is missing; and
\* POST /v1/auth/token answers with that status and code "oauth_error".
C10_StatusMapping ==
    (req.route = "/v1/auth/token" /\ Len(calls) = 2) =>
        LET expected ==
                IF upstream.kind = "network_error" THEN 502
                ELSE IF upstream.status >= 400 THEN upstream.status
                ELSE IF ~upstream.json THEN 502
                ELSE IF \/ Falsy(upstream.payload.access_token)
                        \/ Falsy(upstream.payload.refresh_token)
                        \/ Falsy(upstream.payload.token_type) THEN 400
                ELSE 0
        IN  expected # 0 =>
                /\ result.kind = "oauth_error"
                /\ result.status = expected
                /\ resp.status = expected
                /\ resp.code = "oauth_error"

(***************************************************************************)
(* Properties of the adapter's data operations (specification AdapterSpec).*)
(***************************************************************************)
\* The trace of the last operation holds the event x.
Has(trace, x) == \E i \in 1..Len(trace) : trace[i] = x

UpstreamCalls == {"league_ids", "roster", "settings", "teams", "GET transactions"}

\* Some event x precedes position i of the trace.
Before(trace, x, i) == \E j \in 1..(i - 1) : trace[j] = x

\* C12: in list_teams, get_roster and get_waivers every upstream call comes
\* after the stored token was checked (_get_oauth), and, when the stored token
\* is absent or expired, after a refresh was attempted.
C12_TokenCheckedFirst ==
    req.route \in {"list_teams", "get_roster", "get_waivers"} =>
        \A i \in 1..Len(calls) :
            calls[i] \in UpstreamCalls =>
                /\ Before(calls, "_get_oauth", i)
                /\ ~(file.exists /\ TokenIsValid(file.data, now))
                      => Before(calls, "refresh", i)

\* A waivers call on an expired token refreshed before its library calls and
\* again, on the session's own OAuth object, before the raw REST call.
C12_Witness ==
    /\ req.route = "get_waivers"
    /\ result.kind = "ok"
    /\ ~TokenIsValid(file.data, now)
    /\ calls = <<"get_waivers", "_get_oauth", "refresh", "settings", "teams",
                 "get_session", "_get_oauth", "refresh", "GET transactions">>

\* How often the event x occurs in the trace.
Count(trace, x) == Cardinality({i \in 1..Len(trace) : trace[i] = x})

\* The credential file can be loaded into an OAuth object: it is a JSON
\* object with the consumer credentials, the three token fields and a time.
Loadable ==
    /\ file.exists /\ file.valid
    /\ ~Falsy(file.data.consumer_key) /\ ~Falsy(file.data.consumer_secret)
    /\ ~Falsy(file.data.access_token) /\ ~Falsy(file.data.refresh_token)
    /\ ~Falsy(file.data.token_type)
    /\ IsNumber(file.data.token_time)

\* C13 as stated: get_session makes at most one refresh attempt per call,
\* fails with RuntimeError when no token is obtainable after it, and else
\* returns a client with Authorization "Bearer " + the current access token.
C13_Original ==
    req.route = "get_session" =>
        /\ Count(calls, "refresh") <= 1
        /\ result.kind = "ok" =>
              /\ result.ret[1].authorization[1] = "Bearer"
              /\ ~Falsy(result.ret[1].authorization[2])

\* C13, amended: get_session refreshes an expired token once and, when the
\* access token is then empty, makes exactly one more attempt; it raises
\* RuntimeError exactly when the token is still empty after that attempt, and
\* a session it returns carries "Bearer " + the current, non-empty token: the
\* stored one while that is valid, else the one refreshed last.
C13_Session ==
    req.route = "get_session" =>
        LET n == Count(calls, "refresh")
            stale == Loadable /\ ~TokenIsValid(file.data, now)
        IN  /\ n <= 2
            /\ n >= 1 => stale
            /\ n = 2 <=> (stale /\ upstream.refresh /\ RefreshedToken(upstream, 1) = "")
            /\ Has(calls, "raise RuntimeError")
                  <=> (n = 2 /\ RefreshedToken(upstream, 2) = "")
            /\ Has(calls, "raise RuntimeError") => result.kind = "exception"
            /\ result.kind = "ok" =>
                  /\ result.ret[1].authorization[1] = "Bearer"
                  /\ ~Falsy(result.ret[1].authorization[2])
                  /\ result.ret[1].authorization[2] =
                        (IF n = 0 THEN file.data.access_token
                         ELSE RefreshedToken(upstream, n))

\* A call on an expired token whose first refresh yielded no access token
\* and whose second did: two attempts, and a session with the second token.
C13_Witness ==
    /\ req.route = "get_session"
    /\ Count(calls, "refresh") = 2
    /\ result.kind = "ok"
    /\ result.ret[1].authorization = <<"Bearer", "at9">>

\* C20 (specification Spec): when FAVORITE_TEAMS is empty or only blanks,
\* favorite_teams returns the empty list, and GET /v1/favorites with a valid
\* key and within the rate limit is answered 200 with {"favorites": []}
\* without any upstream call or token refresh.
C20_EmptyFavorites ==
    /\ []((\A i \in 1..Len(settings.FAVORITE_TEAMS) : settings.FAVORITE_TEAMS[i] = " ")
            => favorite_teams(settings.FAVORITE_TEAMS) = <<>>)
    /\ [][ ( /\ Answered
             /\ req'.route = "/v1/favorites"
             /\ \A i \in 1..Len(settings.FAVORITE_TEAMS) : settings.FAVORITE_TEAMS[i] = " "
             /\ ~BadKey(req')
             /\ ~Exhausted(storage, req'.ip, now) )
           => /\ resp'.status = 200
              /\ resp'.body = <<[favorites |-> <<>>]>>
              /\ calls' = <<"enrich_favorites">>
              /\ file' = file ]_vars

\* A favorites request was answered 200 under a blank FAVORITE_TEAMS, without
\* the library and without a credential file, by enrich_favorites alone.
C20_Witness ==
    /\ req.route = "/v1/favorites"
    /\ settings.FAVORITE_TEAMS = <<" ">>
    /\ ~yfa
    /\ ~file.exists
    /\ resp.status = 200
    /\ calls = <<"enrich_favorites">>

(***************************************************************************)
(* Properties of build_authorization_url (specification OAuthSpec).        *)
(***************************************************************************)
\* The consumer key or the consumer secret is in neither the settings nor
\* the credential file f.
CredentialsMissing(f) ==
    \/ Falsy(settings.YAHOO_CONSUMER_KEY) /\ Falsy(f.data.consumer_key)
    \/ Falsy(settings.YAHOO_CONSUMER_SECRET) /\ Falsy(f.data.consumer_secret)

\* The result is a URL on the fixed authorization endpoint.
ReturnsUrl(res) ==
    /\ res.kind = "ok"
    /\ res.ret[1].endpoint = "https://api.login.yahoo.com/oauth2/request_auth"
    /\ res.ret[1].response_type = "code"
    /\ ~Falsy(res.ret[1].client_id)

\* C14 as stated: build_authorization_url makes no network call and no write,
\* fails only with an OAuth error 500 when key or secret is missing from both
\* settings and file, and returns a URL in every other state, whatever the
\* content of the credential file.
C14_Original ==
    [][ (Idle /\ req'.route = "build_authorization_url") =>
          /\ file' = file
          /\ calls' = <<"build_authorization_url">>
          /\ IF CredentialsMissing(file)
             THEN result'.kind = "oauth_error" /\ result'.status = 500
             ELSE ReturnsUrl(result') ]_vars

\* C14, amended: build_authorization_url makes no network call and no write;
\* it fails, with an OAuth error of status 500, when the credential file
\* exists but is not valid JSON or when key or secret is missing from both
\* settings and file, and returns a URL on the fixed endpoint otherwise.
C14_BuildUrl ==
    [][ (Idle /\ req'.route = "build_authorization_url") =>
          /\ file' = file
          /\ calls' = <<"build_authorization_url">>
          /\ IF (file.exists /\ ~file.valid) \/ CredentialsMissing(file)
             THEN result'.kind = "oauth_error" /\ result'.status = 500
             ELSE ReturnsUrl(result') ]_vars

\* With no credential file and the credentials in the settings a URL was
\* built for the default redirect URI.
C14_Witness ==
    /\ req.route = "build_authorization_url"
    /\ ~file.exists
    /\ ReturnsUrl(result)
    /\ result.ret[1].client_id = "ck"
    /\ result.ret[1].redirect_uri = "oob"

\* C17 (specification AdapterSpec): there are no retries. The token POST of
\* an exchange and the transactions GET of get_waivers are each issued at
\* most once per operation, and when that call fails (an HTTP error status
\* or a network failure) the operation fails without a result.
C17_NoRetry ==
    /\ Count(calls, "POST get_token") <= 1
    /\ Count(calls, "GET transactions") <= 1
    /\ (/\ req.route = "exchange_authorization_code"
        /\ Has(calls, "POST get_token")
        /\ (upstream.kind = "network_error" \/ upstream.status >= 400))
          => (result.kind # "ok" /\ result.ret = <<>>)
    /\ (/\ req.route = "get_waivers"
        /\ Has(calls, "GET transactions")
        /\ upstream.rest # "ok")
          => (result.kind = "exception" /\ result.ret = <<>>)

\* get_waivers issued its transactions call, the call failed, and the
\* operation failed after that one call.
C17_Witness ==
    /\ req.route = "get_waivers"
    /\ upstream.rest = "error"
    /\ Count(calls, "GET transactions") = 1
    /\ result.kind = "exception"

(***************************************************************************)
(* Properties of _parse_waiver_transactions (specification ParseSpec).     *)
(***************************************************************************)
\* C15: _parse_waiver_transactions never raises, whatever its input: a record
\* with a structural mismatch at any level yields no claim and the remaining
\* records are still parsed.
C15_NeverRaises ==
    req.route = "_parse_waiver_transactions" => result.kind = "ok"

\* Entries of "transactions" that are well-formed records, or no records.
WellFormed(t) ==
    t \in { Trx(AddType, f, Keyed(<<AddAction>>)) : f \in FaabBids }
          \cup {SampleTransaction, JNum(1), JDict(<<>>)}

\* A pending claim.
Claim(player, type, src, dst, faab) ==
    [player |-> player, action_type |-> type, source_team_key |-> src,
     destination_team_key |-> dst, faab_bid |-> faab]

C18_Alias ==
    (/\ req.route = "favorite_teams"
     /\ settings.FAVORITE_TEAMS = <<"A", "@">> \o LK1 \o <<"|">> \o TK1 \o <<";">> \o TK2)
        => /\ Len(result.ret[1]) = 2
           /\ result.ret[1][1].league_key = LK1
           /\ result.ret[1][1].team_key = TK1
           /\ result.ret[1][1].alias = <<"A">>
           /\ result.ret[1][2].league_key = SubSeq(TK2, 1, 6)
           /\ result.ret[1][2].team_key = TK2
           /\ result.ret[1][2].alias = <<"fav", 2>>

\* The text of an alias fav{i}.
AliasText(alias) == <<"f", "a", "v", <<"1", "2", "3", "4">>[alias[2]]>>

RECURSIVE Rendered(_)
\* The parsed favorites, each rendered as "alias@league|team".
Rendered(favorites) ==
    IF favorites = <<>> THEN <<>>
    ELSE <<AliasText(Head(favorites).alias) \o <<"@">> \o Head(favorites).league_key
             \o <<"|">> \o Head(favorites).team_key>>
         \o Rendered(Tail(favorites))

\* C19: parsing is idempotent: the parsed favorites rendered as
\* "alias@league|team", joined with the separator and parsed again give the
\* same list.
C19_Idempotent ==
    req.route = "favorite_teams" =>
        favorite_teams(Join(Rendered(result.ret[1]), <<";">>)) = result.ret[1]

(***************************************************************************)
(* Properties of the league key of GET /v1/waivers (specification Spec).   *)
(***************************************************************************)
\* The league key favorite_teams derives for a bare team key and the league
\* key the waivers route works with agree.
DerivedAlike(tk, lk) ==
    /\ lk = SplitAtT(tk)
    /\ LeagueKeyMatch(tk) = <<lk>>
    /\ favorite_teams(tk)[1].league_key = lk

\* C21 as stated: for a team key matching the pattern, the league key GET
\* /v1/waivers derives when league_key is omitted equals the one favorite_teams
\* derives from the same team key, and a supplied league_key is used unchanged.
C21_Original ==
    (req.route = "/v1/waivers" /\ req.team_key # <<>> /\ IsTeamKey(req.team_key[1])) =>
        LET lk == WaiversLeagueKey(req.league_key, req.team_key[1])
        IN  IF req.league_key = <<>> THEN DerivedAlike(req.team_key[1], lk)
            ELSE lk = req.league_key[1]

\* C21, amended: for a team key matching the pattern, the league key GET
\* /v1/waivers derives when league_key is omitted or empty equals the one
\* favorite_teams derives from the same team key, and a supplied non-empty
\* league_key is used unchanged.
C21_LeagueKey ==
    (req.route = "/v1/waivers" /\ req.team_key # <<>> /\ IsTeamKey(req.team_key[1])) =>
        LET lk == WaiversLeagueKey(req.league_key, req.team_key[1])
        IN  /\ lk # <<>>
            /\ IF req.league_key = <<>> \/ req.league_key = <<<<>>>>
               THEN DerivedAlike(req.team_key[1], lk)
               ELSE lk = req.league_key[1]

\* A waivers request for team 47.l.4.t.77 without league_key was answered 200.
C21_Witness ==
    /\ req.route = "/v1/waivers"
    /\ req.team_key = <<TK2>>
    /\ req.league_key = <<>>
    /\ resp.status = 200
    /\ WaiversLeagueKey(req.league_key, TK2) = SubSeq(TK2, 1, 6)

(***************************************************************************)
(* Properties of enrich_favorites (specification AdapterSpec).             *)
(***************************************************************************)
\* C22: enrichment is never fatal. Whenever the league listing fails, for
\* whatever reason, enrich_favorites raises nothing and returns the favorites
\* it was given, unchanged.
C22_NeverFatal ==
    [][ ( /\ Idle
          /\ req'.route = "enrich_favorites"
          /\ list_teams(file, now, upstream').kind # "ok" )
        => LET favs == favorite_teams(settings.FAVORITE_TEAMS)
           IN  /\ result'.kind = "ok"
               /\ result'.ret[1] = [i \in 1..Len(favs) |-> Unenriched(favs[i])] ]_vars

\* The leagues of a listing that hold a team with the key, and those with
\* the league key.
LeaguesOfTeam(leagues, team_key) ==
    {n \in 1..Len(leagues) :
        \E i \in 1..Len(leagues[n].teams) : leagues[n].teams[i].team_key = team_key}
LeaguesOfKey(leagues, league_key) ==
    {n \in 1..Len(leagues) : leagues[n].league_key = league_key}

\* The entry returned for favorite fav carries the names the listing has for
\* it: of its team and the team's league, else of its league, else none.
Joined(leagues, fav, out) ==
    /\ out.team_key = fav.team_key
    /\ out.league_key = fav.league_key
    /\ out.alias = fav.alias
    /\ IF LeaguesOfTeam(leagues, fav.team_key) # {}
       THEN \E n \in LeaguesOfTeam(leagues, fav.team_key) :
               /\ out.league_name = leagues[n].league_name
               /\ \E i \in 1..Len(leagues[n].teams) :
                     /\ leagues[n].teams[i].team_key = fav.team_key
                     /\ out.team_name = leagues[n].teams[i].team_name
       ELSE IF LeaguesOfKey(leagues, fav.league_key) # {}
       THEN /\ out.team_name = Missing
            /\ \E n \in LeaguesOfKey(leagues, fav.league_key) :
                  out.league_name = leagues[n].league_name
       ELSE out = Unenriched(fav)

Used(st, ip, t) == IF st[ip].expiry > t THEN st[ip].count ELSE 0

====
